---- MODULE Spec2Model ----
(***************************************************************************)
(* A model of the rust-3d-renderer crate: the Wavefront mesh parser        *)
(* (src/mesh/wavefront.rs), the vertex normalizer and the mesh loader      *)
(* (src/mesh/mod.rs), the triangle rasterizer (src/rasterizer.rs) with the *)
(* two frame loops that drive it (src/lib.rs, src/main.rs) and the         *)
(* material-library loader (src/wavefront.rs).                             *)
(*                                                                         *)
(* The parser is a state machine over the lines of its input: `input' is   *)
(* the text handed to load_buf, `idx' the number of lines the loop has     *)
(* consumed, `dat', `object' and `group' are load_buf's locals and `ret'   *)
(* is what the call has returned (nothing while it runs).                  *)
(***************************************************************************)
EXTENDS Integers, Sequences, FiniteSets, TLC

VARIABLES
    input,            \* the lines of the buffer given to load_buf
    overflow_checks,  \* build profile: TRUE when integer overflow panics
    idx,              \* lines consumed so far (the enumerate() counter)
    dat,              \* load_buf's `dat: MeshData'
    object,           \* load_buf's `object: Object'
    group,            \* load_buf's `group: Option<Group>'
    ret,              \* the value load_buf returned, [tag |-> "Running"] before
    arith,            \* the arithmetic of the normalizer: "f32" or "exact"
    position,         \* MeshData.position of the mesh being normalized
    before,           \* position as it was when normalize_vertices was last called
    calls,            \* calls of normalize_vertices made so far
    scene,            \* what is to be drawn: triangles, or a mesh and its light
    frame,            \* the frame buffer, one colour per pixel slot
    zbuffer,          \* the depth buffer, one f32 per slot
    pc,               \* where the drawing code stands
    drawn,            \* the draw_line and set_pixel calls of the wireframe code so far
    obj,              \* the Obj (or MeshLoader) whose libraries are loaded
    files,            \* the file system: what opening each path yields
    opened,           \* the file names the resolver was called with, in order
    mtl_ret           \* what load_mtls_fn (or load) returned

parser_vars == <<input, overflow_checks, idx, dat, object, group, ret>>
normalizer_vars == <<arith, position, before, calls>>
render_vars == <<scene, frame, zbuffer, pc, drawn>>
mtl_vars == <<obj, files, opened, mtl_ret>>
vars == <<parser_vars, normalizer_vars, render_vars, mtl_vars>>

(***************************************************************************)
(* Bounds of the model.                                                    *)
(***************************************************************************)
\* Longest input, in lines, of the face-index inputs.
MaxFaceLines == 3
\* Longest input, in lines, of the grouping inputs.
MaxGroupLines == 4
\* Most vertices of a mesh handed to the normalizer.
MaxVerts == 2
\* Most successive calls of normalize_vertices on one mesh.
MaxCalls == 2
\* usize is 64 bits wide on the crate's targets; the model keeps the
\* wrap-around of `as usize' and of unchecked subtraction in a narrower word,
\* still far wider than any array the model can build.
UsizeBits == 16

(***************************************************************************)
(* Option<T> and Result<T, E>.                                             *)
(***************************************************************************)
None == <<>>
Some(x) == <<x>>
is_some(o) == o # <<>>
unwrap(o) == o[1]

Ok(v) == [tag |-> "Ok", val |-> v]
Err(e) == [tag |-> "Err", err |-> e]
Panic == [tag |-> "Panic"]
Running == [tag |-> "Running"]

(***************************************************************************)
(* Text.  A line is its first word (cmd) and the whitespace-separated words *)
(* after it.  A word is the sequence of its `/'-separated parts, as        *)
(* str::split yields them: at least one part, and one part only for a word *)
(* without `/'.  A part is a numeral (num, with its value) or other text.  *)
(***************************************************************************)
Num(n) == [num |-> TRUE, val |-> n, text |-> ""]
Txt(s) == [num |-> FALSE, val |-> 0, text |-> s]
Empty == Txt("")

\* FromStr::from_str(part).ok() on one part of a face group
from_str(part) == IF part.num THEN Some(part.val) ELSE None

\* FromStr::from_str(word) on a whole word: a word holding `/' is no number
word_from_str(word) ==
    IF Len(word) = 1 THEN from_str(word[1]) ELSE None

\* words.next() for the i-th word after the directive
next_word(words, i) == IF i <= Len(words) THEN Some(words[i]) ELSE None

Line(cmd, words) == [cmd |-> cmd, words |-> words]

\* line.len() for an `o' or `g' line: the directive, then a blank and a
\* one-character name per word.
line_len(line) == 1 + 2 * Len(line.words)

DEFAULT_OBJECT == << <<Txt("default")>> >>
DEFAULT_GROUP == << <<Txt("default")>> >>

(***************************************************************************)
(* Data model (src/mesh/mod.rs).                                           *)
(***************************************************************************)
MeshData_default ==
    [position |-> <<>>, texture |-> <<>>, normal |-> <<>>,
     objects |-> <<>>, material_libs |-> <<>>]

Object_new(name) == [name |-> name, groups |-> <<>>]

Group_new(name) == [name |-> name, index |-> 0, material |-> None, polys |-> <<>>]

IndexTuple(p, t, n) == <<p, t, n>>

\* Vec::extend with an Option: appends its content, if any.
extend(vec, opt) == IF is_some(opt) THEN Append(vec, unwrap(opt)) ELSE vec

(***************************************************************************)
(* Index resolution.                                                       *)
(***************************************************************************)
UsizeMod == 2 ^ UsizeBits

\* `x as usize' for a negative isize x, and wrapping usize arithmetic.
as_usize(x) == x % UsizeMod

\* normalize with a negative index resolved one entry too early.
normalize_early(i, len) ==
    IF i < 0
    THEN Ok(as_usize(len + i - 1))
    ELSE IF i - 1 < 0 /\ overflow_checks
         THEN Panic
         ELSE Ok(as_usize(i - 1))

normalize(i, len) ==
    IF i < 0
    THEN Ok(as_usize(len + i))
    ELSE IF i - 1 < 0 /\ overflow_checks
         THEN Panic
         ELSE Ok(as_usize(i - 1))

\* Option::map(|t| normalize(t, len)), keeping a panic of the closure.
map_normalize(opt, len) ==
    IF is_some(opt)
    THEN LET r == normalize(unwrap(opt), len)
         IN  IF r.tag = "Ok" THEN Ok(Some(r.val)) ELSE r
    ELSE Ok(None)

parse_two(line_number, n0, n1) ==
    IF ~(is_some(n0) /\ is_some(n1))
    THEN Err([kind |-> "ArgumentListFailure", line_number |-> line_number,
              list |-> <<n0, n1>>])
    ELSE LET a == word_from_str(unwrap(n0))
             b == word_from_str(unwrap(n1))
         IN  IF is_some(a) /\ is_some(b)
             THEN Ok(<<unwrap(a), unwrap(b)>>)
             ELSE Err([kind |-> "ArgumentListFailure",
                       line_number |-> line_number,
                       list |-> <<unwrap(n0), unwrap(n1)>>])

parse_three(line_number, n0, n1, n2) ==
    IF ~(is_some(n0) /\ is_some(n1) /\ is_some(n2))
    THEN Err([kind |-> "ArgumentListFailure", line_number |-> line_number,
              list |-> <<n0, n1, n2>>])
    ELSE LET a == word_from_str(unwrap(n0))
             b == word_from_str(unwrap(n1))
             c == word_from_str(unwrap(n2))
         IN  IF is_some(a) /\ is_some(b) /\ is_some(c)
             THEN Ok(<<unwrap(a), unwrap(b), unwrap(c)>>)
             ELSE Err([kind |-> "ArgumentListFailure",
                       line_number |-> line_number,
                       list |-> <<unwrap(n0), unwrap(n1), unwrap(n2)>>])

\* A face group is the sequence of its `/'-separated parts (never empty:
\* split yields at least one part).
parse_group(mesh_data, line_number, grp) ==
    LET p == from_str(grp[1])
        t == IF Len(grp) >= 2 /\ grp[2] # Empty THEN from_str(grp[2]) ELSE None
        n == IF Len(grp) >= 3 THEN from_str(grp[3]) ELSE None
    IN  IF is_some(p)
        THEN LET rp == normalize(unwrap(p), Len(mesh_data.position))
                 rt == map_normalize(t, Len(mesh_data.texture))
                 rn == map_normalize(n, Len(mesh_data.normal))
             IN  IF rp.tag # "Ok" THEN rp
                 ELSE IF rt.tag # "Ok" THEN rt
                 ELSE IF rn.tag # "Ok" THEN rn
                 ELSE Ok(IndexTuple(rp.val, rt.val, rn.val))
        ELSE Err([kind |-> "MalformedFaceGroup", line_number |-> line_number,
                  group |-> grp])

RECURSIVE parse_face_from(_, _, _, _, _)
parse_face_from(mesh_data, line_number, groups, k, acc) ==
    IF k > Len(groups)
    THEN Ok(acc)
    ELSE LET ituple == parse_group(mesh_data, line_number, groups[k])
         IN  IF ituple.tag # "Ok"
             THEN ituple
             ELSE parse_face_from(mesh_data, line_number, groups, k + 1,
                                  Append(acc, ituple.val))

parse_face(mesh_data, line_number, groups) ==
    parse_face_from(mesh_data, line_number, groups, 1, <<>>)

(***************************************************************************)
(* load_buf: the arms of the match on the first word of a line.  Each      *)
(* yields the locals after the line and the early return, if any.          *)
(***************************************************************************)
Locals(d, o, g, r) == [dat |-> d, object |-> o, group |-> g, ret |-> r]

arm_v(line_number, line) ==
    LET w == line.words
        r == parse_three(line_number, next_word(w, 1), next_word(w, 2), next_word(w, 3))
    IN  IF r.tag = "Ok"
        THEN Locals([dat EXCEPT !.position = Append(@, r.val)], object, group, Running)
        ELSE Locals(dat, object, group, r)

arm_vt(line_number, line) ==
    LET w == line.words
        r == parse_two(line_number, next_word(w, 1), next_word(w, 2))
    IN  IF r.tag = "Ok"
        THEN Locals([dat EXCEPT !.texture = Append(@, r.val)], object, group, Running)
        ELSE Locals(dat, object, group, r)

arm_vn(line_number, line) ==
    LET w == line.words
        r == parse_three(line_number, next_word(w, 1), next_word(w, 2), next_word(w, 3))
    IN  IF r.tag = "Ok"
        THEN Locals([dat EXCEPT !.normal = Append(@, r.val)], object, group, Running)
        ELSE Locals(dat, object, group, r)

\* The `f' arm starting a fresh default group for every face.
arm_f_fresh(line_number, line) ==
    LET poly == parse_face(dat, line_number, line.words)
    IN  IF poly.tag = "Ok"
        THEN Locals(dat, object,
                    Some([Group_new(DEFAULT_GROUP) EXCEPT !.polys = <<poly.val>>]),
                    Running)
        ELSE Locals(dat, object, group, poly)

arm_f(line_number, line) ==
    LET poly == parse_face(dat, line_number, line.words)
    IN  IF poly.tag = "Ok"
        THEN LET g == IF is_some(group) THEN unwrap(group) ELSE Group_new(DEFAULT_GROUP)
             IN  Locals(dat, object,
                        Some([g EXCEPT !.polys = Append(@, poly.val)]), Running)
        ELSE Locals(dat, object, group, poly)

arm_o(line_number, line) ==
    LET new_object == IF line_len(line) > 2
                      THEN Object_new(line.words)
                      ELSE Object_new(DEFAULT_OBJECT)
    IN  IF is_some(group)
        THEN Locals([dat EXCEPT !.objects =
                        Append(@, [object EXCEPT !.groups = Append(@, unwrap(group))])],
                    new_object, None, Running)
        ELSE Locals(dat, new_object, None, Running)

arm_g(line_number, line) ==
    LET flushed == [object EXCEPT !.groups = extend(@, group)]
    IN  IF line_len(line) > 2
        THEN Locals(dat, flushed, Some(Group_new(line.words)), Running)
        ELSE Locals(dat, flushed, None, Running)

arm_mtllib(line_number, line) ==
    IF line.words = <<>>
    THEN Locals(dat, object, group,
                Err([kind |-> "MissingMTLName", line_number |-> line_number]))
    ELSE Locals([dat EXCEPT !.material_libs = Append(@, line.words)],
                object, group, Running)

arm_usemtl(line_number, line) ==
    LET g0 == IF is_some(group) THEN unwrap(group) ELSE Group_new(DEFAULT_GROUP)
        split == is_some(g0.material)
        o1 == IF split THEN [object EXCEPT !.groups = Append(@, g0)] ELSE object
        g1 == IF split THEN [g0 EXCEPT !.index = @ + 1, !.polys = <<>>] ELSE g0
        g2 == [g1 EXCEPT !.material = next_word(line.words, 1)]
    IN  Locals(dat, o1, Some(g2), Running)

arm_other(line_number, line) == Locals(dat, object, group, Running)

match_first(line_number, line) ==
    CASE line.cmd = "v" -> arm_v(line_number, line)
      [] line.cmd = "vt" -> arm_vt(line_number, line)
      [] line.cmd = "vn" -> arm_vn(line_number, line)
      [] line.cmd = "f" -> arm_f(line_number, line)
      [] line.cmd = "o" -> arm_o(line_number, line)
      [] line.cmd = "g" -> arm_g(line_number, line)
      [] line.cmd = "mtllib" -> arm_mtllib(line_number, line)
      [] line.cmd = "usemtl" -> arm_usemtl(line_number, line)
      [] OTHER -> arm_other(line_number, line)

\* One iteration of `for (idx, line) in input.lines().enumerate()'.
load_buf_line ==
    /\ ret.tag = "Running"
    /\ idx < Len(input)
    /\ LET after == match_first(idx, input[idx + 1])
       IN  /\ dat' = after.dat
           /\ object' = after.object
           /\ group' = after.group
           /\ ret' = after.ret
    /\ idx' = idx + 1
    /\ UNCHANGED <<input, overflow_checks>>
    /\ UNCHANGED <<normalizer_vars, render_vars, mtl_vars>>

\* The statements after the loop, appending the object only with a group
\* pending, as the `o' arm does.
load_buf_end_if_group ==
    /\ ret.tag = "Running"
    /\ idx = Len(input)
    /\ LET o == [object EXCEPT !.groups = extend(@, group)]
           d == IF is_some(group) THEN [dat EXCEPT !.objects = Append(@, o)] ELSE dat
       IN  /\ dat' = d
           /\ object' = o
           /\ ret' = Ok(d)
    /\ group' = None
    /\ UNCHANGED <<input, overflow_checks, idx>>
    /\ UNCHANGED <<normalizer_vars, render_vars, mtl_vars>>

\* The statements after the loop.
load_buf_end ==
    /\ ret.tag = "Running"
    /\ idx = Len(input)
    /\ LET o == [object EXCEPT !.groups = extend(@, group)]
           d == [dat EXCEPT !.objects = Append(@, o)]
       IN  /\ dat' = d
           /\ object' = o
           /\ ret' = Ok(d)
    /\ group' = None
    /\ UNCHANGED <<input, overflow_checks, idx>>
    /\ UNCHANGED <<normalizer_vars, render_vars, mtl_vars>>

\* Nothing is being drawn.
render_idle ==
    /\ scene = <<>>
    /\ frame = <<>>
    /\ zbuffer = <<>>
    /\ pc = [at |-> "idle", n |-> 0, o |-> 0, g |-> 0, f |-> 0]
    /\ drawn = <<>>

\* No material library is being loaded.
mtl_idle ==
    /\ obj = <<>>
    /\ files = <<>>
    /\ opened = <<>>
    /\ mtl_ret = Running

\* No mesh has been handed to the normalizer.
normalizer_idle ==
    /\ arith = "f32"
    /\ position = <<>>
    /\ before = <<>>
    /\ calls = 0

load_buf_init(inputs) ==
    /\ normalizer_idle
    /\ render_idle
    /\ mtl_idle
    /\ input \in inputs
    /\ overflow_checks \in BOOLEAN
    /\ idx = 0
    /\ dat = MeshData_default
    /\ object = Object_new(DEFAULT_OBJECT)
    /\ group = None
    /\ ret = Running

SeqsUpTo(S, n) == UNION {[1..k -> S] : k \in 0..n}

(***************************************************************************)
(* Inputs of the face-index specification: `v', `vt', `vn' and `f' lines,  *)
(* well-formed and malformed.  A face is three groups; the first varies,   *)
(* the other two are `1' and `2'.                                          *)
(***************************************************************************)
v_ok == Line("v", << <<Num(1)>>, <<Num(1)>>, <<Num(1)>> >>)
v_short == Line("v", << <<Num(1)>>, <<Num(1)>> >>)
v_text == Line("v", << <<Num(1)>>, <<Txt("x")>>, <<Num(1)>> >>)
vt_ok == Line("vt", << <<Num(1)>>, <<Num(1)>> >>)
vt_short == Line("vt", << <<Num(1)>> >>)
vn_ok == Line("vn", << <<Num(1)>>, <<Num(1)>>, <<Num(1)>> >>)

FirstGroups ==
    {<<Num(1)>>, <<Num(2)>>, <<Num(0)>>, <<Num(-1)>>, <<Num(-2)>>,
     <<Num(1), Num(1), Num(1)>>, <<Num(1), Empty, Num(1)>>,
     <<Num(-1), Num(-1), Num(-1)>>, <<Txt("x")>>}

face(g) == Line("f", <<g, <<Num(1)>>, <<Num(2)>>>>)
f_second_bad == Line("f", << <<Num(1)>>, <<Txt("y"), Num(1)>>, <<Txt("x")>> >>)

FaceLines ==
    {v_ok, v_short, v_text, vt_ok, vt_short, vn_ok, f_second_bad}
        \cup {face(g) : g \in FirstGroups}

InitFaces == load_buf_init(SeqsUpTo(FaceLines, MaxFaceLines))

Next == load_buf_line \/ load_buf_end

SpecFaces == InitFaces /\ [][Next]_vars

(***************************************************************************)
(* What the properties read of a run.                                      *)
(***************************************************************************)
RECURSIVE Flatten(_)
Flatten(ss) == IF ss = <<>> THEN <<>> ELSE Head(ss) \o Flatten(Tail(ss))

Finished == ret.tag # "Running"

\* The objects of the mesh: those returned, or, while load_buf runs, those it
\* would return were the input to end here.
objects_now ==
    IF ret.tag = "Ok"
    THEN ret.val.objects
    ELSE Append(dat.objects, [object EXCEPT !.groups = extend(@, group)])

polys_of_object(o) == Flatten([j \in 1..Len(o.groups) |-> o.groups[j].polys])
polys_of(objs) == Flatten([i \in 1..Len(objs) |-> polys_of_object(objs[i])])

\* Number of lines with directive cmd among the first n lines of the input.
count_before(cmd, n) == Cardinality({i \in 1..n : input[i].cmd = cmd})

\* Line j has been read and load_buf went on (or returned Ok) after it.
accepted(j) == j < idx \/ (j = idx /\ ret.tag \in {"Running", "Ok"})

is_number(word) == Len(word) = 1 /\ word[1].num

(***************************************************************************)
(* C1                                                                      *)
(***************************************************************************)
well_formed_v(line) ==
    /\ line.cmd = "v"
    /\ Len(line.words) >= 3
    /\ \A i \in 1..3 : is_number(line.words[i])

positive_group(g) ==
    /\ Len(g) <= 3
    /\ g[1].num /\ g[1].val > 0
    /\ Len(g) >= 2 => (g[2] = Empty \/ (g[2].num /\ g[2].val > 0))
    /\ Len(g) >= 3 => (g[3].num /\ g[3].val > 0)

positive_f(line) ==
    /\ line.cmd = "f"
    /\ \A k \in 1..Len(line.words) : positive_group(line.words[k])

only_v_and_positive_f ==
    \A j \in 1..Len(input) : well_formed_v(input[j]) \/ positive_f(input[j])

expected_tuple(g) ==
    <<g[1].val - 1,
      IF Len(g) >= 2 /\ g[2] # Empty THEN Some(g[2].val - 1) ELSE None,
      IF Len(g) >= 3 THEN Some(g[3].val - 1) ELSE None>>

expected_polys ==
    LET fs == SelectSeq(input, LAMBDA l : l.cmd = "f")
    IN  [i \in 1..Len(fs) |->
            [k \in 1..Len(fs[i].words) |-> expected_tuple(fs[i].words[k])]]

one_default_group(polys) ==
    <<[name |-> DEFAULT_OBJECT,
       groups |-> <<[name |-> DEFAULT_GROUP, index |-> 0, material |-> None,
                     polys |-> polys]>>]>>

\* C1 as stated: every input made only of well-formed `v' lines and `f' lines
\* with positive indices yields one object "default" holding one group
\* "default" (index 0, no material) whose polygons are the `f' lines in file
\* order, index i stored as i-1 and an absent texcoord/normal as None.
C1_AsStated ==
    (Finished /\ only_v_and_positive_f)
        => (ret.tag = "Ok" /\ ret.val.objects = one_default_group(expected_polys))

\* C1 amended: the same for every such input that has at least one `f' line;
\* with no `f' line the mesh holds the one object "default" with no group.
C1_DefaultGroup ==
    (Finished /\ only_v_and_positive_f)
        => /\ ret.tag = "Ok"
           /\ ret.val.objects =
                IF count_before("f", Len(input)) > 0
                THEN one_default_group(expected_polys)
                ELSE <<Object_new(DEFAULT_OBJECT)>>

C1_Witness ==
    /\ ret.tag = "Ok"
    /\ only_v_and_positive_f
    /\ count_before("f", Len(input)) = 2
    /\ count_before("v", Len(input)) = 1
    /\ \E j \in 1..Len(input) : input[j] = face(<<Num(1), Empty, Num(1)>>)
    /\ Len(polys_of(ret.val.objects)) = 2

(***************************************************************************)
(* C2                                                                      *)
(***************************************************************************)
\* The polygon stored for the `f' line at line j (the inputs of this
\* specification have no `o' line, so no polygon is dropped).
poly_of_line(j) == polys_of(objects_now)[count_before("f", j)]

array_cmd(part) == CASE part = 1 -> "v" [] part = 2 -> "vt" [] part = 3 -> "vn"

\* C2: at every moment, for every accepted `f' line and every part of it that
\* is a negative index k read when its target array held N >= |k| entries,
\* the index stored is N + k, however many entries later lines appended.
C2_NegativeIndex ==
    \A j \in 1..Len(input) :
        (input[j].cmd = "f" /\ accepted(j)) =>
            \A m \in 1..Len(input[j].words) :
                \A part \in 1..Len(input[j].words[m]) :
                    LET w == input[j].words[m][part]
                        N == count_before(array_cmd(part), j - 1)
                        stored == poly_of_line(j)[m][part]
                    IN  (w.num /\ w.val < 0 /\ N >= -w.val) =>
                            IF part = 1
                            THEN stored = N + w.val
                            ELSE stored = Some(N + w.val)

C2_Witness ==
    /\ ret.tag = "Ok"
    /\ Len(input) = 3
    /\ input[1] = v_ok
    /\ input[2] = face(<<Num(-1)>>)
    /\ input[3] = v_ok
    /\ poly_of_line(2)[1][1] = 0
    /\ Len(ret.val.position) = 2

(***************************************************************************)
(* C3                                                                      *)
(***************************************************************************)
in_range(tuple, mesh) ==
    /\ tuple[1] < Len(mesh.position)
    /\ is_some(tuple[2]) => unwrap(tuple[2]) < Len(mesh.texture)
    /\ is_some(tuple[3]) => unwrap(tuple[3]) < Len(mesh.normal)

\* Line j is an `f' line holding an index that cannot be resolved against
\* the arrays as they are when the line is read.
unresolvable(j) ==
    /\ input[j].cmd = "f"
    /\ \E m \in 1..Len(input[j].words) :
        \E part \in 1..Len(input[j].words[m]) :
            LET w == input[j].words[m][part]
                N == count_before(array_cmd(part), j - 1)
            IN  w.num /\ (w.val = 0 \/ w.val > N \/ w.val < -N)

\* C3: every index of a returned mesh is below the length of its array, and
\* a run that read an `f' line with an unresolvable index ended in a parse
\* error: it neither panicked nor returned a mesh.
C3_IndicesInRange ==
    Finished =>
        /\ ret.tag # "Panic"
        /\ ret.tag = "Ok" =>
             LET polys == polys_of(ret.val.objects)
             IN  \A i \in 1..Len(polys) : \A m \in 1..Len(polys[i]) :
                    in_range(polys[i][m], ret.val)
        /\ (\E j \in 1..idx : unresolvable(j)) => ret.tag = "Err"

(***************************************************************************)
(* C7                                                                      *)
(***************************************************************************)
malformed(line) ==
    \/ /\ line.cmd \in {"v", "vn"}
       /\ \/ Len(line.words) < 3
          \/ \E i \in 1..3 : ~is_number(line.words[i])
    \/ /\ line.cmd = "vt"
       /\ \/ Len(line.words) < 2
          \/ \E i \in 1..2 : ~is_number(line.words[i])
    \/ /\ line.cmd = "f"
       /\ \E m \in 1..Len(line.words) : ~line.words[m][1].num

some_malformed == \E j \in 1..Len(input) : malformed(input[j])

first_malformed ==
    CHOOSE j \in 1..Len(input) :
        malformed(input[j]) /\ \A i \in 1..(j - 1) : ~malformed(input[i])

first_bad_group(line) ==
    line.words[CHOOSE m \in 1..Len(line.words) :
                  /\ ~line.words[m][1].num
                  /\ \A i \in 1..(m - 1) : line.words[i][1].num]

reports(err, j) ==
    /\ err.line_number = j - 1
    /\ IF input[j].cmd = "f"
       THEN err.kind = "MalformedFaceGroup" /\ err.group = first_bad_group(input[j])
       ELSE err.kind = "ArgumentListFailure"

\* C7: a finished run over an input with a malformed line returned the error
\* of the earliest malformed line, with that line's 0-based index, and read
\* no line after it.
C7_FailFast ==
    (Finished /\ some_malformed)
        => /\ ret.tag = "Err"
           /\ reports(ret.err, first_malformed)
           /\ idx = first_malformed

\* The same, for runs that do not meet an index 0 in an overflow-checked build.
C7_FailFast_NoPanic ==
    (Finished /\ some_malformed /\ ret.tag # "Panic")
        => /\ ret.tag = "Err"
           /\ reports(ret.err, first_malformed)
           /\ idx = first_malformed

(***************************************************************************)
(* Inputs of the grouping specification: faces, `o', `g' and `usemtl'      *)
(* lines, with and without a name.                                         *)
(***************************************************************************)
Name(s) == << <<Txt(s)>> >>

f_1 == face(<<Num(1)>>)
f_2 == face(<<Num(2)>>)
o_plain == Line("o", <<>>)
o_a == Line("o", Name("a"))
g_plain == Line("g", <<>>)
g_a == Line("g", Name("a"))
usemtl_A == Line("usemtl", Name("A"))
usemtl_B == Line("usemtl", Name("B"))
usemtl_plain == Line("usemtl", <<>>)

GroupLines ==
    {f_1, f_2, o_plain, o_a, g_plain, g_a, usemtl_A, usemtl_B, usemtl_plain}

InitGroups == load_buf_init(SeqsUpTo(GroupLines, MaxGroupLines))

SpecGroups == InitGroups /\ [][Next]_vars

(***************************************************************************)
(* C4                                                                      *)
(***************************************************************************)
\* This step reads an `o' line.
reads(cmd) ==
    /\ ret.tag = "Running"
    /\ idx < Len(input)
    /\ input[idx + 1].cmd = cmd
    /\ idx' = idx + 1

flushed_object == [object EXCEPT !.groups = extend(@, group)]

\* C4: on every `o' line the current object, with the pending group flushed
\* into it, is appended to the objects of the mesh.
C4_ObjectAppended ==
    [][reads("o") => dat'.objects = Append(dat.objects, flushed_object)]_vars

\* C4, its last clause: on every `o' line a current object that has received
\* a group (flushed earlier, or pending now) is appended to the objects of the
\* mesh with all its groups; it is not discarded.
C4_NoObjectDiscarded ==
    [][(reads("o") /\ flushed_object.groups # <<>>)
          => dat'.objects = Append(dat.objects, flushed_object)]_vars

(***************************************************************************)
(* C5                                                                      *)
(***************************************************************************)
boundary(j) == input[j].cmd \in {"g", "o"}

\* The `g' or `o' line that opens the run of lines holding line j (0: none).
seg_start(j) ==
    IF \E i \in 1..j : boundary(i)
    THEN CHOOSE i \in 1..j : boundary(i) /\ \A h \in (i + 1)..j : ~boundary(h)
    ELSE 0

\* The `g' or `o' line that closes it (one past the input: none).
seg_end(j) ==
    IF \E i \in j..Len(input) : boundary(i)
    THEN CHOOSE i \in j..Len(input) : boundary(i) /\ \A h \in j..(i - 1) : ~boundary(h)
    ELSE Len(input) + 1

usemtls_in(lo, hi) == {i \in (lo + 1)..(hi - 1) : input[i].cmd = "usemtl"}

\* The expected polygons of the `f' lines strictly between lines lo and hi.
polys_between(lo, hi) ==
    LET fs == SelectSeq([i \in 1..Len(input) |-> [at |-> i, line |-> input[i]]],
                        LAMBDA e : e.line.cmd = "f" /\ lo < e.at /\ e.at < hi)
    IN  [i \in 1..Len(fs) |->
            [k \in 1..Len(fs[i].line.words) |-> expected_tuple(fs[i].line.words[k])]]

\* The group a `usemtl' line j is to produce.
expected_group(j) ==
    LET s == seg_start(j)
        e == seg_end(j)
        earlier == usemtls_in(s, j)
        after == usemtls_in(j, e)
        hi == IF after = {} THEN e
              ELSE CHOOSE i \in after : \A h \in after : i <= h
    IN  [name |-> IF s > 0 /\ input[s].cmd = "g" /\ input[s].words # <<>>
                  THEN input[s].words
                  ELSE DEFAULT_GROUP,
         index |-> Cardinality(earlier),
         material |-> Some(input[j].words[1]),
         polys |-> polys_between(IF earlier = {} THEN s ELSE j, hi)]

\* Every `usemtl' of the run of lines holding line j carries a name.
all_named(j) ==
    \A i \in usemtls_in(seg_start(j), seg_end(j)) : input[i].words # <<>>

\* The groups of `usemtl' line j and of the `usemtl' before it in its run
\* (if any) stand in the mesh, one after the other in one object.
produced(objs, j) ==
    LET earlier == usemtls_in(seg_start(j), j)
    IN  \E i \in 1..Len(objs) : \E q \in 1..Len(objs[i].groups) :
            /\ objs[i].groups[q] = expected_group(j)
            /\ earlier # {} =>
                 /\ q > 1
                 /\ objs[i].groups[q - 1] =
                        expected_group(CHOOSE h \in earlier : \A b \in earlier : b <= h)

\* C5: in a returned mesh, the k named `usemtl' lines issued between two
\* `g'/`o' lines have produced k groups of the pending group's name, in
\* order, with indices 0..k-1, each with its material and the polygons read
\* up to the next `usemtl'.
C5_OneGroupPerMaterial ==
    ret.tag = "Ok" =>
        \A j \in 1..Len(input) :
            (input[j].cmd = "usemtl" /\ all_named(j)) => produced(ret.val.objects, j)

\* An `o' line read with no group pending while the current object has
\* groups (the case of C4): a nameless `g' right before an `o'.
drops_object ==
    \E j \in 2..Len(input) : input[j].cmd = "o" /\ input[j - 1] = g_plain

\* The same, for inputs that do not meet C4's case.
C5_OneGroupPerMaterial_NoDrop ==
    (ret.tag = "Ok" /\ ~drops_object) =>
        \A j \in 1..Len(input) :
            (input[j].cmd = "usemtl" /\ all_named(j)) => produced(ret.val.objects, j)

(***************************************************************************)
(* C6                                                                      *)
(***************************************************************************)
\* The last `o' line of the input (0: none).
last_o ==
    IF \E i \in 1..Len(input) : input[i].cmd = "o"
    THEN CHOOSE i \in 1..Len(input) :
            input[i].cmd = "o" /\ \A h \in (i + 1)..Len(input) : input[h].cmd # "o"
    ELSE 0

\* C6: a returned mesh has at least one object, and its last object is the
\* one current at end of input: it has the name of the last `o' line (the
\* default name if there is none, or the line has no name) and holds the
\* polygons of every `f' line after that `o' line, in order.
C6_LastObject ==
    ret.tag = "Ok" =>
        /\ Len(ret.val.objects) >= 1
        /\ LET last == ret.val.objects[Len(ret.val.objects)]
           IN  /\ last.name = IF last_o > 0 /\ input[last_o].words # <<>>
                              THEN input[last_o].words
                              ELSE DEFAULT_OBJECT
               /\ polys_of_object(last) = polys_between(last_o, Len(input) + 1)

C6_Witness ==
    /\ ret.tag = "Ok"
    /\ Len(input) = 2
    /\ input[1] = f_1
    /\ input[2] = o_a
    /\ Len(ret.val.objects) = 2
    /\ ret.val.objects[2] = Object_new(Name("a"))

(***************************************************************************)
(* Numbers of the vertex normalizer.  The code computes in f32: a finite   *)
(* f32 is <<m, e>>, standing for m * 2^e, with m = 0 (and e = 0) or        *)
(* 2^23 <= |m| < 2^24, and every operation rounds its exact result to the  *)
(* nearest such number, ties to the even m.  The numbers of the model are  *)
(* normal and far from overflow; the sign of zero is not kept.  `arith'    *)
(* selects the arithmetic of a run: "f32", the code's, or "exact", the     *)
(* same computation over the rationals <<n, d>> (n/d in lowest terms,      *)
(* d > 0), where nothing rounds.  In both, <<1, 0>> is +infinity.          *)
(***************************************************************************)
P12 == 2 ^ 12
P22 == 2 ^ 22
P23 == 2 ^ 23
P24 == 2 ^ 24

Abs(n) == IF n < 0 THEN -n ELSE n
Sgn(n) == IF n < 0 THEN -1 ELSE 1

RECURSIVE BitLen(_)
BitLen(n) == IF n = 0 THEN 0 ELSE 1 + BitLen(n \div 2)

Infinity == <<1, 0>>
is_inf(x) == x = Infinity

\* The f32 nearest to sign * M * 2^e, plus a non-zero amount below one unit of
\* M when sticky (round to nearest, ties to even).
f32_round(sign, M, sticky, e) ==
    LET nb == BitLen(M)
    IN  IF M = 0 THEN <<0, 0>>
        ELSE IF nb <= 24 THEN <<sign * M * 2 ^ (24 - nb), e - (24 - nb)>>
        ELSE LET shift == nb - 24
                 q == M \div 2 ^ shift
                 r == M % 2 ^ shift
                 half == 2 ^ (shift - 1)
                 up == r > half \/ (r = half /\ (sticky \/ q % 2 = 1))
                 q1 == IF up THEN q + 1 ELSE q
             IN  IF q1 = P24
                 THEN <<sign * P23, e + shift + 1>>
                 ELSE <<sign * q1, e + shift>>

f32_add(x, y) ==
    IF x[1] = 0 THEN y
    ELSE IF y[1] = 0 THEN x
    ELSE LET big == IF x[2] >= y[2] THEN x ELSE y
             small == IF x[2] >= y[2] THEN y ELSE x
             d == big[2] - small[2]
         IN  IF d > 26 THEN big
             ELSE LET B == Abs(big[1]) * 8
                      S == (Abs(small[1]) * 8) \div 2 ^ d
                      lost == (Abs(small[1]) * 8) % 2 ^ d # 0
                  IN  IF Sgn(big[1]) = Sgn(small[1])
                      THEN f32_round(Sgn(big[1]), B + S, lost, big[2] - 3)
                      ELSE IF B >= S
                           THEN f32_round(Sgn(big[1]),
                                          IF lost THEN B - S - 1 ELSE B - S,
                                          lost, big[2] - 3)
                           ELSE f32_round(Sgn(small[1]), S - B, FALSE, big[2] - 3)

f32_neg(x) == IF is_inf(x) THEN x ELSE <<-x[1], x[2]>>

f32_mul(x, y) ==
    IF x[1] = 0 \/ y[1] = 0 THEN <<0, 0>>
    ELSE LET a == Abs(x[1])
             b == Abs(y[1])
             a1 == a \div P12
             a0 == a % P12
             b1 == b \div P12
             b0 == b % P12
             cross == a1 * b0 + a0 * b1
             low == (cross % P12) * P12 + a0 * b0
             L == low % P24
             H == a1 * b1 + cross \div P12 + low \div P24
         IN  f32_round(Sgn(x[1]) * Sgn(y[1]), H * 4 + L \div P22,
                       L % P22 # 0, x[2] + y[2] + 22)

\* n more bits of the quotient, by long division: <<quotient, remainder>>.
RECURSIVE long_div(_, _, _, _)
long_div(q, r, b, n) ==
    IF n = 0 THEN <<q, r>>
    ELSE IF 2 * r >= b
         THEN long_div(2 * q + 1, 2 * r - b, b, n - 1)
         ELSE long_div(2 * q, 2 * r, b, n - 1)

f32_div(x, y) ==
    IF y[1] = 0 THEN Infinity
    ELSE IF x[1] = 0 THEN <<0, 0>>
    ELSE LET a == Abs(x[1])
             b == Abs(y[1])
             qr == long_div(a \div b, a % b, b, 26)
         IN  f32_round(Sgn(x[1]) * Sgn(y[1]), qr[1], qr[2] # 0, x[2] - y[2] - 26)

f32_lt(x, y) ==
    IF is_inf(x) THEN FALSE
    ELSE IF is_inf(y) THEN TRUE
    ELSE IF x[1] < 0 /\ y[1] >= 0 THEN TRUE
    ELSE IF x[1] >= 0 /\ y[1] <= 0 THEN FALSE
    ELSE IF x[1] = 0 THEN TRUE
    ELSE IF x[1] > 0 THEN x[2] < y[2] \/ (x[2] = y[2] /\ x[1] < y[1])
    ELSE x[2] > y[2] \/ (x[2] = y[2] /\ x[1] < y[1])

\* The f32 of a small integer.
f32_of(k) == f32_round(Sgn(k), Abs(k), FALSE, 0)

RECURSIVE Gcd(_, _)
Gcd(a, b) == IF b = 0 THEN a ELSE Gcd(b, a % b)

rat(n, d) ==
    LET g == Gcd(Abs(n), Abs(d))
    IN  IF d = 0 THEN Infinity ELSE <<(Sgn(d) * n) \div g, Abs(d) \div g>>

rat_add(x, y) == rat(x[1] * y[2] + y[1] * x[2], x[2] * y[2])
rat_neg(x) == IF is_inf(x) THEN x ELSE <<-x[1], x[2]>>
rat_mul(x, y) == rat(x[1] * y[1], x[2] * y[2])
rat_div(x, y) == rat(x[1] * y[2], x[2] * y[1])
rat_lt(x, y) == x[1] * y[2] < y[1] * x[2]

num(k) == IF arith = "exact" THEN rat(k, 1) ELSE f32_of(k)
add(x, y) == IF arith = "exact" THEN rat_add(x, y) ELSE f32_add(x, y)
neg(x) == IF arith = "exact" THEN rat_neg(x) ELSE f32_neg(x)
sub(x, y) == add(x, neg(y))
mul(x, y) == IF arith = "exact" THEN rat_mul(x, y) ELSE f32_mul(x, y)
div(x, y) == IF arith = "exact" THEN rat_div(x, y) ELSE f32_div(x, y)
lt(x, y) == IF arith = "exact" THEN rat_lt(x, y) ELSE f32_lt(x, y)
le(x, y) == ~lt(y, x)

(***************************************************************************)
(* MeshData::normalize_vertices (src/mesh/mod.rs).  A vertex is <<x, y, z>>.*)
(***************************************************************************)
\* The body of the loop of min_max_vertices for one axis: <<min, max>>.
min_max_step(mm, x) ==
    IF lt(mm[2], x) THEN <<mm[1], x>>
    ELSE IF lt(x, mm[1]) THEN <<x, mm[2]>>
    ELSE mm

RECURSIVE min_max_from(_, _, _)
min_max_from(vertices, k, values) ==
    IF k > Len(vertices)
    THEN values
    ELSE LET v == vertices[k]
             xs == min_max_step(<<values[1], values[2]>>, v[1])
             ys == min_max_step(<<values[3], values[4]>>, v[2])
             zs == min_max_step(<<values[5], values[6]>>, v[3])
         IN  min_max_from(vertices, k + 1,
                          <<xs[1], xs[2], ys[1], ys[2], zs[1], zs[2]>>)

min_max_vertices(vertices) ==
    min_max_from(vertices, 1, <<num(0), num(0), num(0), num(0), num(0), num(0)>>)

is_valid(values) ==
    \A i \in 1..6 : le(values[i], num(1)) /\ le(num(-1), values[i])

\* The greatest element instead of the least.
max_by(scale) ==
    scale[CHOOSE i \in 1..Len(scale) : \A j \in 1..Len(scale) : le(scale[j], scale[i])]

\* scale.iter().min_by(partial_cmp): the first of the least elements.
min_by(scale) ==
    scale[CHOOSE i \in 1..Len(scale) :
            /\ \A j \in 1..Len(scale) : le(scale[i], scale[j])
            /\ \A j \in 1..(i - 1) : lt(scale[i], scale[j])]

translation_of(values) ==
    [a \in 1..3 |->
        neg(add(values[2 * a - 1],
                div(sub(values[2 * a], values[2 * a - 1]), num(2))))]

scale_of(values) ==
    [a \in 1..3 |->
        div(num(1), div(sub(values[2 * a], values[2 * a - 1]), num(2)))]

\* normalize_vertices without its early return.
normalize_vertices_always(vertices) ==
    LET values == min_max_vertices(vertices)
        translation == translation_of(values)
        scale_by == min_by(scale_of(values))
    IN  [i \in 1..Len(vertices) |->
            [a \in 1..3 |-> mul(add(vertices[i][a], translation[a]), scale_by)]]

normalize_vertices(vertices) ==
    LET values == min_max_vertices(vertices)
        translation == translation_of(values)
        scale_by == min_by(scale_of(values))
    IN  IF is_valid(values)
        THEN vertices
        ELSE [i \in 1..Len(vertices) |->
                [a \in 1..3 |-> mul(add(vertices[i][a], translation[a]), scale_by)]]

\* A call `mesh.normalize_vertices()'.
normalize_vertices_call ==
    /\ calls < MaxCalls
    /\ before' = position
    /\ position' = normalize_vertices(position)
    /\ calls' = calls + 1
    /\ UNCHANGED arith
    /\ UNCHANGED <<parser_vars, render_vars, mtl_vars>>

\* No input is being parsed.
parser_idle ==
    /\ input = <<>>
    /\ overflow_checks = FALSE
    /\ idx = 0
    /\ dat = MeshData_default
    /\ object = Object_new(DEFAULT_OBJECT)
    /\ group = None
    /\ ret = Running

meshes_of(Xs, Ys, Zs) == SeqsUpTo(Xs \X Ys \X Zs, MaxVerts)

normalizer_init(a, meshes) ==
    /\ parser_idle
    /\ render_idle
    /\ mtl_idle
    /\ arith = a
    /\ position \in meshes
    /\ before = <<>>
    /\ calls = 0

\* Coordinates of the f32 runs: the f32 nearest to -0.3, -0.4 and 0.7 and the
\* f32 0.5, 1.5, 2.5, -3 and 0.11's nearest.
F32_X == {<<-10066330, -25>>, <<-13421773, -25>>, <<8388608, -24>>,
          <<12582912, -23>>, <<10485760, -22>>}
F32_Y == {<<0, 0>>, <<11744051, -24>>, <<-12582912, -22>>}
F32_Z == {<<0, 0>>, <<14763950, -27>>}

\* Coordinates of the exact runs.
Exact_X == {rat(-2, 1), rat(-1, 2), rat(1, 2), rat(3, 1)}
Exact_Y == {rat(-1, 1), rat(1, 3), rat(4, 1)}
Exact_Z == {rat(0, 1), rat(-3, 1)}

InitNormalize == normalizer_init("f32", meshes_of(F32_X, F32_Y, F32_Z))
InitNormalizeExact == normalizer_init("exact", meshes_of(Exact_X, Exact_Y, Exact_Z))

NextNormalize == normalize_vertices_call

SpecNormalize == InitNormalize /\ [][NextNormalize]_vars
SpecNormalizeExact == InitNormalizeExact /\ [][NextNormalize]_vars

(***************************************************************************)
(* C8                                                                      *)
(***************************************************************************)
coords(vertices, a) == {vertices[i][a] : i \in 1..Len(vertices)}

within_unit(x) == le(num(-1), x) /\ le(x, num(1))

\* Every coordinate of every vertex lies within [-1, 1]; the extrema seeded
\* at 0 then do too.
all_within_unit(vertices) ==
    \A a \in 1..3 : \A x \in coords(vertices, a) : within_unit(x)

\* The least and the greatest of 0 and the coordinates on axis a.
lowest(vertices, a) ==
    CHOOSE x \in coords(vertices, a) \cup {num(0)} :
        \A y \in coords(vertices, a) \cup {num(0)} : le(x, y)
highest(vertices, a) ==
    CHOOSE x \in coords(vertices, a) \cup {num(0)} :
        \A y \in coords(vertices, a) \cup {num(0)} : le(y, x)

extent(vertices, a) == sub(highest(vertices, a), lowest(vertices, a))
centre(vertices, a) ==
    div(add(highest(vertices, a), lowest(vertices, a)), num(2))
widest(vertices) ==
    CHOOSE e \in {extent(vertices, a) : a \in 1..3} :
        \A a \in 1..3 : le(extent(vertices, a), e)

\* C8: in exact arithmetic, a call on a mesh whose extrema are not all within
\* [-1, 1] leaves every coordinate within [-1, 1]: each is its distance from
\* the centre of its axis' extent, times the one scale 2 / (widest extent).
C8_WithinUnitCube ==
    (arith = "exact" /\ calls >= 1 /\ ~all_within_unit(before)) =>
        /\ all_within_unit(position)
        /\ Len(position) = Len(before)
        /\ \A i \in 1..Len(before) : \A a \in 1..3 :
              position[i][a] =
                  mul(sub(before[i][a], centre(before, a)),
                      div(num(2), widest(before)))

C8_Witness ==
    /\ arith = "exact"
    /\ calls = 1
    /\ Len(before) = 2
    /\ ~all_within_unit(before)
    /\ all_within_unit(position)
    /\ \E a \in 1..3 : position[1][a] = num(1)
    /\ \E a \in 1..3 : lt(num(0), position[2][a]) /\ lt(position[2][a], num(1))

(***************************************************************************)
(* C9                                                                      *)
(***************************************************************************)
\* C9: a call on a mesh whose extrema, seeded at 0, all lie within [-1, 1]
\* (that is, whose coordinates all do) leaves every position as it was.
C9_Untouched ==
    (calls >= 1 /\ all_within_unit(before)) => position = before

C9_Witness ==
    /\ arith = "f32"
    /\ calls = 1
    /\ Len(before) = 2
    /\ all_within_unit(before)
    /\ before[1] # before[2]
    /\ \A i \in 1..2 : lt(num(0), before[i][2]) /\ lt(before[i][2], num(1))
    /\ position = before

(***************************************************************************)
(* C10                                                                     *)
(***************************************************************************)
\* C10: a second call of normalize_vertices changes no position.
C10_Idempotent ==
    calls >= 2 => position = before

(***************************************************************************)
(* The triangle rasterizer (src/rasterizer.rs).  It computes in f32, with  *)
(* the numbers <<m, e>> of the normalizer; <<2, 0>> is NaN.  A vector is   *)
(* the sequence of its components, a colour the sequence of its four       *)
(* bytes.  The frame buffer holds one colour per pixel slot (four bytes at *)
(* byte offset 4 * slot), the depth buffer one f32 per slot; both are      *)
(* functions over 0 .. WIDTH * HEIGHT - 1.                                 *)
(***************************************************************************)
\* The viewport.  The binary draws 512 x 512 pixels (src/main.rs) and the
\* library a viewport of any size (Config.width, Config.height); the model
\* draws a small one.
WIDTH == 11
HEIGHT == 11
\* Most triangles handed to render_triangle one after the other.
MaxTriangles == 2

Slots == 0..(WIDTH * HEIGHT - 1)

BLACK == <<0, 0, 0, 255>>

f32_MAX == <<16777215, 104>>
f32_MIN == <<-16777215, 104>>
NaN == <<2, 0>>
is_nan(x) == x = NaN

\* f32::max and f32::min
f32_max(x, y) == IF f32_lt(x, y) THEN y ELSE x
f32_min(x, y) == IF f32_lt(y, x) THEN y ELSE x

f32_sub(x, y) == f32_add(x, f32_neg(y))
f32_abs(x) == IF is_inf(x) THEN x ELSE <<Abs(x[1]), x[2]>>

\* `x as i32': towards zero, saturating, NaN to 0
as_i32(x) ==
    IF is_nan(x) \/ x[1] = 0 THEN 0
    ELSE IF is_inf(x) THEN 2147483647
    ELSE IF x[2] >= 0
         THEN IF x[2] > 7
              THEN (IF x[1] > 0 THEN 2147483647 ELSE -2147483647 - 1)
              ELSE x[1] * 2 ^ x[2]
         ELSE IF x[2] < -24 THEN 0
              ELSE Sgn(x[1]) * (Abs(x[1]) \div 2 ^ (-x[2]))

\* const _WIDTH_F, _HEIGHT_F
WIDTH_F == f32_of(WIDTH - 1)
HEIGHT_F == f32_of(HEIGHT - 1)
\* const _WIDTH_C, _HEIGHT_C
WIDTH_C == WIDTH
HEIGHT_C == HEIGHT - 1

Buffers(f, z, p) == [frame |-> f, zbuffer |-> z, panicked |-> p]

\* set_pixel without the flip of y: row-major from the top.
set_pixel_top_down(x, y, bufs, color) ==
    LET slot == x + WIDTH * y
    IN  IF slot \notin 0..(WIDTH * HEIGHT - 1)
        THEN [bufs EXCEPT !.panicked = TRUE]
        ELSE [bufs EXCEPT !.frame[slot] = color]

\* utils::set_pixel: the slice frame[si..si + 4] is out of range, and the
\* call panics, past the end of the buffer; _HEIGHT_C - y below zero
\* overflows.
set_pixel(x, y, bufs, color) ==
    LET slot == x + WIDTH_C * (HEIGHT_C - y)
    IN  IF y > HEIGHT_C \/ slot \notin Slots
        THEN [bufs EXCEPT !.panicked = TRUE]
        ELSE [bufs EXCEPT !.frame[slot] = color]

\* utils::clear
clear(f, color) == [slot \in DOMAIN f |-> color]

\* Vector3::cross
cross(a, b) ==
    << f32_sub(f32_mul(a[2], b[3]), f32_mul(a[3], b[2])),
       f32_sub(f32_mul(a[3], b[1]), f32_mul(a[1], b[3])),
       f32_sub(f32_mul(a[1], b[2]), f32_mul(a[2], b[1])) >>

\* barycentric_coordinates answering a degenerate triangle with weights that
\* are all positive.
barycentric_coordinates_positive(vertices, point) ==
    LET u == cross(<< f32_sub(vertices[2][1], vertices[1][1]),
                      f32_sub(vertices[3][1], vertices[1][1]),
                      f32_sub(vertices[1][1], point[1]) >>,
                   << f32_sub(vertices[2][2], vertices[1][2]),
                      f32_sub(vertices[3][2], vertices[1][2]),
                      f32_sub(vertices[1][2], point[2]) >>)
    IN  IF f32_lt(f32_abs(u[3]), f32_of(1))
        THEN <<f32_of(1), f32_of(1), f32_of(1)>>
        ELSE << f32_sub(f32_of(1), f32_div(f32_add(u[1], u[2]), u[3])),
                f32_div(u[2], u[3]),
                f32_div(u[1], u[3]) >>

barycentric_coordinates(vertices, point) ==
    LET u == cross(<< f32_sub(vertices[2][1], vertices[1][1]),
                      f32_sub(vertices[3][1], vertices[1][1]),
                      f32_sub(vertices[1][1], point[1]) >>,
                   << f32_sub(vertices[2][2], vertices[1][2]),
                      f32_sub(vertices[3][2], vertices[1][2]),
                      f32_sub(vertices[1][2], point[2]) >>)
    IN  IF f32_lt(f32_abs(u[3]), f32_of(1))
        THEN <<f32_of(-1), f32_of(1), f32_of(1)>>
        ELSE << f32_sub(f32_of(1), f32_div(f32_add(u[1], u[2]), u[3])),
                f32_div(u[2], u[3]),
                f32_div(u[1], u[3]) >>

\* utils::update_vector2(&mut point, i, j)
update_vector2(point, i, j) == <<f32_of(i), f32_of(j), point[3]>>

\* The loop over the vertices that grows the bounding box, from vertex k.
RECURSIVE bbox_from(_, _, _, _)
bbox_from(vertices, k, bboxmin, bboxmax) ==
    IF k > 3 THEN <<bboxmin, bboxmax>>
    ELSE bbox_from(vertices, k + 1,
            [j \in 1..2 |-> f32_max(f32_of(0), f32_min(bboxmin[j], vertices[k][j]))],
            [j \in 1..2 |-> f32_min(<<WIDTH_F, HEIGHT_F>>[j],
                                    f32_max(bboxmax[j], vertices[k][j]))])

\* The depth-buffer index q of the pixel (i, j).
depth_slot(i, j) == i + j * as_i32(WIDTH_F)

\* The body of the two loops for the pixel (i, j).
render_pixel(vertices, color, i, j, bufs) ==
    LET point == update_vector2(<<f32_of(0), f32_of(0), f32_of(0)>>, i, j)
        bc_screen == barycentric_coordinates(vertices, point)
        z == f32_add(f32_add(f32_of(0), f32_mul(vertices[1][3], bc_screen[1])),
                     f32_mul(vertices[2][3], bc_screen[2]))
        q == depth_slot(i, j)
    IN  IF bc_screen[1][1] < 0 \/ bc_screen[2][1] < 0 \/ bc_screen[3][1] < 0
        THEN bufs
        ELSE IF q \notin Slots
        THEN [bufs EXCEPT !.panicked = TRUE]
        ELSE IF f32_lt(bufs.zbuffer[q], z)
        THEN [set_pixel(i, j, bufs, color) EXCEPT !.zbuffer[q] = z]
        ELSE bufs

\* `for j in jlo..jhi' for one i, from j on.
RECURSIVE render_rows(_, _, _, _, _, _)
render_rows(vertices, color, i, j, jhi, bufs) ==
    IF j >= jhi \/ bufs.panicked THEN bufs
    ELSE render_rows(vertices, color, i, j + 1, jhi,
                     render_pixel(vertices, color, i, j, bufs))

\* `for i in ilo..ihi', from i on.
RECURSIVE render_cols(_, _, _, _, _, _, _)
render_cols(vertices, color, i, ihi, jlo, jhi, bufs) ==
    IF i >= ihi \/ bufs.panicked THEN bufs
    ELSE render_cols(vertices, color, i + 1, ihi, jlo, jhi,
                     render_rows(vertices, color, i, jlo, jhi, bufs))

render_triangle(vertices, bufs, color) ==
    LET bbox == bbox_from(vertices, 1, <<f32_MAX, f32_MAX>>, <<f32_MIN, f32_MIN>>)
        bboxmin == bbox[1]
        bboxmax == bbox[2]
    IN  render_cols(vertices, color,
                    as_i32(bboxmin[1]), as_i32(bboxmax[1]) + 1,
                    as_i32(bboxmin[2]), as_i32(bboxmax[2]) + 1, bufs)

(***************************************************************************)
(* Triangles handed to render_triangle one after the other, the first     *)
(* into freshly cleared buffers.  A triangle of the input gives its        *)
(* vertices' screen x and y in half pixels (integers, so that the          *)
(* geometry of the properties is exact), their depths and its colour.      *)
(***************************************************************************)
\* Where the drawing stands: in frame n, at face f of group g of object o.
At(a, n, o, g, f) == [at |-> a, n |-> n, o |-> o, g |-> g, f |-> f]

\* k / 2 as an f32
half(k) == f32_div(f32_of(k), f32_of(2))

Triangle(xy2, z, c) ==
    [xy2 |-> xy2,
     vertices |-> [k \in 1..3 |-> <<half(xy2[k][1]), half(xy2[k][2]), z[k]>>],
     color |-> <<c, c, c, 255>>]

fresh_frame == [slot \in Slots |-> BLACK]
fresh_zbuffer == [slot \in Slots |-> f32_MIN]

\* One call of render_triangle, on the next triangle of the scene.
render_triangle_call ==
    /\ pc.at = "triangles"
    /\ pc.f < Len(scene)
    /\ \E after \in {render_triangle(scene[pc.f + 1].vertices,
                                      Buffers(frame, zbuffer, FALSE),
                                      scene[pc.f + 1].color)} :
           /\ frame' = after.frame
           /\ zbuffer' = after.zbuffer
           /\ pc' = IF after.panicked THEN At("panic", 0, 0, 0, pc.f + 1)
                    ELSE At("triangles", 0, 0, 0, pc.f + 1)
    /\ UNCHANGED <<scene, drawn>>
    /\ UNCHANGED <<parser_vars, normalizer_vars, mtl_vars>>

\* The f32 nearest to 0.2 and to 0.8, and -0.5
z_02 == <<13421773, -26>>
z_08 == <<13421773, -24>>
z_m05 == <<-8388608, -24>>
z_0 == <<0, 0>>

flat(z) == <<z, z, z>>

Triangles ==
    { Triangle(<< <<0, 0>>, <<20, 0>>, <<0, 20>> >>, flat(z_0), 200),
      Triangle(<< <<2, 2>>, <<8, 2>>, <<2, 8>> >>, flat(z_02), 64),
      Triangle(<< <<2, 2>>, <<8, 2>>, <<2, 8>> >>, flat(z_08), 200),
      Triangle(<< <<8, 8>>, <<2, 8>>, <<8, 2>> >>, flat(z_08), 200),
      Triangle(<< <<5, 5>>, <<9, 5>>, <<5, 9>> >>, <<z_02, z_08, z_m05>>, 64),
      Triangle(<< <<2, 2>>, <<3, 2>>, <<2, 3>> >>, flat(z_0), 200),
      Triangle(<< <<-4, -2>>, <<6, 2>>, <<2, 8>> >>, flat(z_08), 64),
      Triangle(<< <<2, 2>>, <<6, 6>>, <<10, 10>> >>, <<z_08, z_02, z_0>>, 200),
      Triangle(<< <<4, 6>>, <<4, 6>>, <<4, 6>> >>, flat(z_02), 64),
      Triangle(<< <<2, 4>>, <<8, 4>>, <<18, 4>> >>, <<z_08, z_02, z_0>>, 64),
      Triangle(<< <<1, 2>>, <<5, 4>>, <<9, 6>> >>, flat(z_08), 200) }

InitTriangles ==
    /\ parser_idle
    /\ normalizer_idle
    /\ mtl_idle
    /\ scene \in SeqsUpTo(Triangles, MaxTriangles)
    /\ frame = fresh_frame
    /\ zbuffer = fresh_zbuffer
    /\ pc = At("triangles", 0, 0, 0, 0)
    /\ drawn = <<>>

NextTriangles == render_triangle_call

SpecTriangles == InitTriangles /\ [][NextTriangles]_vars

(***************************************************************************)
(* Properties of render_triangle.  Their geometry is exact: it is computed *)
(* on the integer half-pixel coordinates of the input.                     *)
(***************************************************************************)
\* Twice the signed area of the triangle a, b, p.
edge(a, b, p) == (b[1] - a[1]) * (p[2] - a[2]) - (b[2] - a[2]) * (p[1] - a[1])

collinear(t) == edge(t.xy2[1], t.xy2[2], t.xy2[3]) = 0

\* The pixel (x, y) lies inside the triangle or on its boundary.
inside(x, y, t) ==
    LET p == <<2 * x, 2 * y>>
        e1 == edge(t.xy2[1], t.xy2[2], p)
        e2 == edge(t.xy2[2], t.xy2[3], p)
        e3 == edge(t.xy2[3], t.xy2[1], p)
    IN  \/ e1 >= 0 /\ e2 >= 0 /\ e3 >= 0
        \/ e1 <= 0 /\ e2 <= 0 /\ e3 <= 0

Pixels == (0..(WIDTH - 1)) \X (0..(HEIGHT - 1))

\* The slot of the frame buffer that shows the pixel (x, y).
slot_of(x, y) == x + WIDTH * (HEIGHT - 1 - y)

is_flat(t) == t.vertices[1][3] = t.vertices[2][3] /\ t.vertices[2][3] = t.vertices[3][3]

depth_of(t) == t.vertices[1][3]

\* C11: a triangle of non-zero area drawn by render_triangle into freshly
\* cleared buffers writes exactly the pixels of the viewport that lie inside
\* it or on its boundary.
C11_ExactCoverage ==
    (pc.at = "triangles" /\ pc.f = 1 /\ ~collinear(scene[1]))
    => \A p \in Pixels :
         (frame[slot_of(p[1], p[2])] # BLACK) <=> inside(p[1], p[2], scene[1])

\* C12: of two triangles of constant depth drawn into freshly cleared
\* buffers, in either order, the one of the greater depth shows at every
\* pixel both cover.
C12_NearerWins ==
    (pc.at = "triangles" /\ pc.f = 2)
    => \A a, b \in 1..2 :
         ( /\ is_flat(scene[a]) /\ is_flat(scene[b])
           /\ ~collinear(scene[a]) /\ ~collinear(scene[b])
           /\ f32_lt(depth_of(scene[a]), depth_of(scene[b])) )
         => \A p \in Pixels :
              (inside(p[1], p[2], scene[a]) /\ inside(p[1], p[2], scene[b]))
              => frame[slot_of(p[1], p[2])] = scene[b].color

\* C15: render_triangle, given a triangle whose projected vertices are
\* collinear, changes neither the frame buffer nor the depth buffer,
\* whatever they hold.
C15_DegenerateRejected ==
    [][(pc.at = "triangles" /\ pc.f < Len(scene) /\ collinear(scene[pc.f + 1]))
       => (frame' = frame /\ zbuffer' = zbuffer)]_vars

\* A collinear triangle has been drawn over buffers a triangle had painted.
C15_Witness ==
    /\ pc.at = "triangles"
    /\ pc.f = 2
    /\ collinear(scene[2])
    /\ ~collinear(scene[1])
    /\ frame # fresh_frame
    /\ zbuffer # fresh_zbuffer

(***************************************************************************)
(* rasterize_mesh (src/rasterizer.rs) and the vector operations of cgmath  *)
(* it calls.  1/0 is +infinity and 0 * infinity is NaN, which is what the  *)
(* normal of a face of zero area comes to.                                 *)
(***************************************************************************)
\* The square root of m * 4^n, digit by digit: two more bits of the radicand
\* per step (of m first, zeros after), <<root, remainder>>.
RECURSIVE sqrt_bits(_, _, _, _, _)
sqrt_bits(root, rem, m, mpairs, zpairs) ==
    IF mpairs = 0 /\ zpairs = 0 THEN <<root, rem>>
    ELSE LET two == IF mpairs > 0 THEN (m \div 4 ^ (mpairs - 1)) % 4 ELSE 0
             r == 4 * rem + two
             t == 4 * root + 1
         IN  IF r >= t
             THEN sqrt_bits(2 * root + 1, r - t, m,
                            IF mpairs > 0 THEN mpairs - 1 ELSE 0,
                            IF mpairs > 0 THEN zpairs ELSE zpairs - 1)
             ELSE sqrt_bits(2 * root, r, m,
                            IF mpairs > 0 THEN mpairs - 1 ELSE 0,
                            IF mpairs > 0 THEN zpairs ELSE zpairs - 1)

\* f32::sqrt of a number that is not negative
f32_sqrt(x) ==
    IF is_nan(x) \/ is_inf(x) \/ x[1] = 0 THEN x
    ELSE LET odd == x[2] % 2 # 0
             m == IF odd THEN 2 * x[1] ELSE x[1]
             e == IF odd THEN x[2] - 1 ELSE x[2]
             rr == sqrt_bits(0, 0, m, 13, 14)
         IN  f32_round(1, rr[1], rr[2] # 0, (e \div 2) - 14)

\* Division and multiplication where the operands may be 0, infinite or NaN.
f32_div_any(x, y) ==
    IF is_nan(x) \/ is_nan(y) THEN NaN
    ELSE IF y[1] = 0 THEN (IF x[1] = 0 THEN NaN ELSE Infinity)
    ELSE f32_div(x, y)

f32_mul_any(x, y) ==
    IF is_nan(x) \/ is_nan(y) THEN NaN
    ELSE IF is_inf(x) \/ is_inf(y)
         THEN (IF x[1] = 0 \/ y[1] = 0 THEN NaN ELSE Infinity)
    ELSE f32_mul(x, y)

f32_add_any(x, y) ==
    IF is_nan(x) \/ is_nan(y) THEN NaN
    ELSE IF is_inf(x) \/ is_inf(y) THEN Infinity
    ELSE f32_add(x, y)

\* Vector3 - Vector3
vec_sub(a, b) == [k \in 1..3 |-> f32_sub(a[k], b[k])]

\* InnerSpace::dot
dot(a, b) ==
    f32_add_any(f32_add_any(f32_mul_any(a[1], b[1]), f32_mul_any(a[2], b[2])),
                f32_mul_any(a[3], b[3]))

\* InnerSpace::magnitude
magnitude(a) == f32_sqrt(dot(a, a))

\* InnerSpace::normalize: self * (1 / self.magnitude())
vec_normalize(a) ==
    LET k == f32_div_any(f32_of(1), magnitude(a))
    IN  [c \in 1..3 |-> f32_mul_any(a[c], k)]

\* `x as u8' taking the low byte of the truncated number, not saturating.
as_u8_wrapping(x) ==
    IF is_nan(x) THEN 0
    ELSE IF is_inf(x) THEN 255
    ELSE as_i32(x) % 256

\* `x as u8': towards zero, saturating, NaN to 0
as_u8(x) ==
    IF is_nan(x) THEN 0
    ELSE IF is_inf(x) THEN 255
    ELSE IF as_i32(x) < 0 THEN 0
    ELSE IF as_i32(x) > 255 THEN 255
    ELSE as_i32(x)

world_to_screen(world_c) ==
    << f32_div(f32_mul(f32_add(world_c[1], f32_of(1)), WIDTH_F), f32_of(2)),
       f32_div(f32_mul(f32_add(world_c[2], f32_of(1)), HEIGHT_F), f32_of(2)),
       world_c[3] >>

\* A face can be drawn: it has its entries 0..2 and they index `vertices'.
face_in_range(vertices, poly) ==
    /\ Len(poly) >= 3
    /\ \A i \in 1..3 : poly[i][1] < Len(vertices)

\* The intensity rasterize_mesh computes for a face.
intensity_of(vertices, poly, light_dir) ==
    LET world_coordinates == [i \in 1..3 |-> vertices[poly[i][1] + 1]]
        normal == vec_normalize(cross(vec_sub(world_coordinates[2], world_coordinates[1]),
                                      vec_sub(world_coordinates[3], world_coordinates[1])))
    IN  as_u8(f32_mul_any(dot(normal, light_dir), f32_of(255)))

\* The body of `for face in faces'.  (screen_coordinates and intensity are
\* bound to their values, computed once.)
rasterize_face(vertices, poly, bufs, light_dir) ==
    IF ~face_in_range(vertices, poly)
    THEN [bufs EXCEPT !.panicked = TRUE]
    ELSE CHOOSE after \in
             { IF intensity > 0
               THEN render_triangle(screen_coordinates, bufs,
                                    <<intensity, intensity, intensity, 255>>)
               ELSE bufs :
               screen_coordinates \in
                   {[i \in 1..3 |-> world_to_screen(vertices[poly[i][1] + 1])]},
               intensity \in {intensity_of(vertices, poly, light_dir)} } : TRUE

(***************************************************************************)
(* A run of the program: the mesh is parsed and normalized (init), then    *)
(* frames are drawn, by render_scene (src/lib.rs) or by the redraw handler *)
(* and rasterize_scene (src/main.rs).  `scene' names the frame loop and    *)
(* the light; `pc' counts the frames and walks the objects, groups and     *)
(* faces of the mesh.  rasterize_mesh is taken one face at a time.         *)
(***************************************************************************)
\* Most frames drawn in one run.
MaxFrames == 2

\* const LIGHT_DIR
LIGHT_DIR == <<0, 0, 1>>

\* f32::from_str of an integer numeral, for the three numbers of a `v' line
to_f32(v) == [k \in 1..3 |-> f32_of(v[k])]

\* The mesh the frames draw.
mesh_objects == ret.val.objects

\* The group after group g of object o in the order of the two `for' loops,
\* <<0, 0>> when there is none.
RECURSIVE next_group(_, _, _)
next_group(objs, o, g) ==
    IF o > Len(objs) THEN <<0, 0>>
    ELSE IF g + 1 <= Len(objs[o].groups) THEN <<o, g + 1>>
    ELSE next_group(objs, o + 1, 0)

goto_group(n, og) ==
    IF og = <<0, 0>> THEN At("done", n, 0, 0, 0) ELSE At("group", n, og[1], og[2], 0)

\* Where the loops stand once rasterize_mesh is called for group g of object o.
enter_group(n, o, g) ==
    IF mesh_objects[o].groups[g].polys = <<>>
    THEN goto_group(n, next_group(mesh_objects, o, g))
    ELSE At("face", n, o, g, 0)

\* init: the parsed mesh, unwrapped and normalized; the depth buffer allocated.
init ==
    /\ pc.at = "load"
    /\ ret.tag = "Ok"
    /\ before' = [i \in 1..Len(ret.val.position) |-> to_f32(ret.val.position[i])]
    /\ position' = normalize_vertices(before')
    /\ calls' = calls + 1
    /\ zbuffer' = fresh_zbuffer
    /\ pc' = At("ready", 0, 0, 0, 0)
    /\ UNCHANGED <<arith, scene, frame, drawn>>
    /\ UNCHANGED <<parser_vars, mtl_vars>>

\* render_scene up to its loops: the frame buffer is cleared.
render_scene_begin ==
    /\ scene.entry = "render_scene"
    /\ pc.at \in {"ready", "done"}
    /\ pc.n < MaxFrames
    /\ frame' = clear(frame, BLACK)
    /\ pc' = goto_group(pc.n + 1, next_group(mesh_objects, 1, 0))
    /\ UNCHANGED <<scene, zbuffer, drawn>>
    /\ UNCHANGED <<parser_vars, normalizer_vars, mtl_vars>>

\* render_scene for one group without the clearing of the depth buffer.
render_scene_group_keeps_depth ==
    /\ scene.entry = "render_scene"
    /\ pc.at = "group"
    /\ pc' = enter_group(pc.n, pc.o, pc.g)
    /\ UNCHANGED <<scene, frame, zbuffer, drawn>>
    /\ UNCHANGED <<parser_vars, normalizer_vars, mtl_vars>>

\* render_scene, filled mode, for one group: the depth buffer is cleared and
\* rasterize_mesh called.
render_scene_group ==
    /\ scene.entry = "render_scene"
    /\ pc.at = "group"
    /\ zbuffer' = [slot \in DOMAIN zbuffer |-> f32_MIN]
    /\ pc' = enter_group(pc.n, pc.o, pc.g)
    /\ UNCHANGED <<scene, frame, drawn>>
    /\ UNCHANGED <<parser_vars, normalizer_vars, mtl_vars>>

\* The redraw handler of main up to the loops of rasterize_scene: the frame
\* buffer and the depth buffer are cleared.
redraw_requested ==
    /\ scene.entry = "rasterize_scene"
    /\ pc.at \in {"ready", "done"}
    /\ pc.n < MaxFrames
    /\ frame' = clear(frame, BLACK)
    /\ zbuffer' = [slot \in DOMAIN zbuffer |-> f32_MIN]
    /\ pc' = goto_group(pc.n + 1, next_group(mesh_objects, 1, 0))
    /\ UNCHANGED <<scene, drawn>>
    /\ UNCHANGED <<parser_vars, normalizer_vars, mtl_vars>>

\* rasterize_scene for one group: rasterize_mesh is called.
rasterize_scene_group ==
    /\ scene.entry = "rasterize_scene"
    /\ pc.at = "group"
    /\ pc' = enter_group(pc.n, pc.o, pc.g)
    /\ UNCHANGED <<scene, frame, zbuffer, drawn>>
    /\ UNCHANGED <<parser_vars, normalizer_vars, mtl_vars>>

\* The face the loop of rasterize_mesh takes next.
face_now == mesh_objects[pc.o].groups[pc.g].polys[pc.f + 1]

\* One iteration of `for face in faces' in rasterize_mesh.
rasterize_mesh_face ==
    /\ pc.at = "face"
    /\ \E after \in {rasterize_face(position, face_now,
                                    Buffers(frame, zbuffer, FALSE),
                                    to_f32(scene.light_dir))} :
           /\ frame' = after.frame
           /\ zbuffer' = after.zbuffer
           /\ pc' = IF after.panicked
                    THEN At("panic", pc.n, pc.o, pc.g, pc.f)
                    ELSE IF pc.f + 1 < Len(mesh_objects[pc.o].groups[pc.g].polys)
                    THEN At("face", pc.n, pc.o, pc.g, pc.f + 1)
                    ELSE goto_group(pc.n, next_group(mesh_objects, pc.o, pc.g))
    /\ UNCHANGED <<scene, drawn>>
    /\ UNCHANGED <<parser_vars, normalizer_vars, mtl_vars>>

\* Inputs: meshes of a few small triangles.  Two vertices at (-4, -4) and
\* (4, 4) fix the extent, so that normalization scales by 1/4.
v(x, y, z) == Line("v", << <<Num(x)>>, <<Num(y)>>, <<Num(z)>> >>)
f3(a, b, c) == Line("f", << <<Num(a)>>, <<Num(b)>>, <<Num(c)>> >>)
f2(a, b) == Line("f", << <<Num(a)>>, <<Num(b)>> >>)

Extent == << v(-4, -4, 0), v(4, 4, 0) >>
NearAndFar == << v(0, 0, 2), v(2, 0, 2), v(0, 2, 2), v(0, 0, 1), v(2, 0, 1), v(0, 2, 1) >>

SceneTexts ==
    { Extent \o NearAndFar
        \o << Line("g", Name("near")), f3(3, 4, 5), Line("g", Name("far")), f3(6, 7, 8) >>,
      Extent \o NearAndFar
        \o << Line("g", Name("far")), f3(6, 7, 8), Line("g", Name("near")), f3(3, 4, 5) >>,
      Extent \o << v(0, 0, 0), v(2, 0, 0), v(0, 2, 0),
                   f3(3, 4, 5), f3(3, 5, 4), f3(3, 3, 4), f3(-3, -2, -1) >>,
      << v(0, 0, 0), v(1, 0, 0), v(0, 1, 256), f3(1, 2, 3), f3(1, 3, 2) >>,
      << v(-1, -1, 0), v(1, -1, 0), v(-1, 1, 0), f3(1, 2, 3),
         Line("o", Name("a")), Line("o", Name("b")), f3(3, 2, 1), f3(1, 2, 3) >>,
      << v(0, 0, 0), v(1, 0, 0), f3(1, 2, 1), f2(1, 2) >>,
      << f3(1, 1, 2) >> }

Scenes ==
    {[entry |-> "render_scene", light_dir |-> l] : l \in {LIGHT_DIR, <<0, 0, -1>>}}
    \cup {[entry |-> "rasterize_scene", light_dir |-> LIGHT_DIR]}

InitScene ==
    /\ input \in SceneTexts
    /\ overflow_checks \in BOOLEAN
    /\ idx = 0
    /\ dat = MeshData_default
    /\ object = Object_new(DEFAULT_OBJECT)
    /\ group = None
    /\ ret = Running
    /\ normalizer_idle
    /\ mtl_idle
    /\ scene \in Scenes
    /\ frame = [slot \in Slots |-> <<0, 0, 0, 0>>]
    /\ zbuffer = <<>>
    /\ pc = At("load", 0, 0, 0, 0)
    /\ drawn = <<>>

NextScene ==
    \/ load_buf_line
    \/ load_buf_end
    \/ init
    \/ render_scene_begin
    \/ render_scene_group
    \/ redraw_requested
    \/ rasterize_scene_group
    \/ rasterize_mesh_face

SpecScene == InitScene /\ [][NextScene]_vars

(***************************************************************************)
(* Properties of the frame loops and of rasterize_mesh.                    *)
(***************************************************************************)
\* The loops of a frame are running.
in_frame == pc.at \in {"group", "face"}

\* C13: within a frame the depth buffer is not reset: no entry of it ever
\* drops while the groups of the frame are rasterized, so what one group
\* wrote is in force for every later group.
C13_DepthKeptWithinFrame ==
    [][in_frame => \A slot \in Slots : ~f32_lt(zbuffer'[slot], zbuffer[slot])]_vars

\* The same for the frames of rasterize_scene alone.
C13_DepthKept_rasterize_scene ==
    [][(in_frame /\ scene.entry = "rasterize_scene")
       => \A slot \in Slots : ~f32_lt(zbuffer'[slot], zbuffer[slot])]_vars

\* The vertices of a face as the input gave them (integers).
corners(poly) == [i \in 1..3 |-> ret.val.position[poly[i][1] + 1]]

\* The normal of a face (the cross product of its two edges from vertex 0),
\* exactly.
normal_of(poly) ==
    LET c == corners(poly)
        a == [k \in 1..3 |-> c[2][k] - c[1][k]]
        b == [k \in 1..3 |-> c[3][k] - c[1][k]]
    IN  << a[2] * b[3] - a[3] * b[2], a[3] * b[1] - a[1] * b[3], a[1] * b[2] - a[2] * b[1] >>

zero_area(poly) == normal_of(poly) = <<0, 0, 0>>

\* The face does not point towards the light (or has no area).
faces_away(poly) ==
    LET n == normal_of(poly)
        l == scene.light_dir
    IN  n[1] * l[1] + n[2] * l[2] + n[3] * l[3] <= 0

\* C14: rasterize_mesh leaves the frame buffer and the depth buffer as they
\* are for a face whose intensity is 0, and the intensity is 0 for a face
\* that points away from the light or has no area.
C14_CulledFaceUntouched ==
    [][(/\ pc.at = "face"
        /\ face_in_range(position, face_now)
        /\ \/ intensity_of(position, face_now, to_f32(scene.light_dir)) = 0
           \/ faces_away(face_now))
       => (frame' = frame /\ zbuffer' = zbuffer)]_vars

\* rasterize_mesh has drawn a face, then passed over one that points away
\* from the light and over one of no area.
C14_Witness ==
    /\ pc.at = "face"
    /\ pc.f = 3
    /\ LET polys == mesh_objects[pc.o].groups[pc.g].polys
       IN  /\ ~faces_away(polys[1])
           /\ faces_away(polys[2]) /\ ~zero_area(polys[2])
           /\ zero_area(polys[3])
    /\ \E slot \in Slots : frame[slot] # BLACK
    /\ zbuffer # fresh_zbuffer

\* C16: drawing the frames of a mesh the parser accepted never indexes a
\* vector or a buffer out of range.
C16_NoPanic == pc.at # "panic"

(***************************************************************************)
(* Material libraries (src/wavefront.rs).  A Material is its name and its  *)
(* `Ns' value, the one attribute the model reads; an .mtl file is the      *)
(* sequence of its lines, a line being its instruction (cmd) and the words *)
(* after it.  `files' maps a file name to what opening it yields: an I/O   *)
(* error or the lines of the file.                                         *)
(***************************************************************************)
\* Longest list of `mtllib' references of an Obj.
MaxLibs == 3

Material_new(name) == [name |-> name, ns |-> None]

Mtl_new(filename) == [filename |-> filename, materials |-> <<>>]

ObjMaterial_Ref(name) == [tag |-> "Ref", name |-> name]
ObjMaterial_Mtl(material) == [tag |-> "Mtl", material |-> material]

ObjMaterial_name(mat) == IF mat.tag = "Ref" THEN mat.name ELSE mat.material.name

\* Parser::get_f32 on the words after the instruction
get_f32(words) ==
    IF words = <<>>
    THEN Err([kind |-> "MissingValue", type |-> "F32"])
    ELSE LET parsed == word_from_str(words[1])
         IN  IF is_some(parsed)
             THEN Ok(unwrap(parsed))
             ELSE Err([kind |-> "InvalidValue", value |-> words[1]])

\* The locals of Mtl::reload after a line: the library, the material being
\* read and the error the line returned with, if any.
Reloading(lib, material, r) == [lib |-> lib, material |-> material, ret |-> r]

\* One iteration of `for line in input.lines()' of Mtl::reload.
reload_line(lib, material, line) ==
    CASE line.cmd = "newmtl" ->
           LET flushed == [lib EXCEPT !.materials = extend(@, material)]
           IN  IF line.words = <<>>
               THEN Reloading(flushed, None, Err([kind |-> "MissingMaterialName"]))
               ELSE Reloading(flushed, Some(Material_new(line.words[1])), Running)
      [] line.cmd = "Ns" ->
           IF is_some(material)
           THEN LET value == get_f32(line.words)
                IN  IF value.tag = "Ok"
                    THEN Reloading(lib, Some([unwrap(material) EXCEPT !.ns = Some(value.val)]),
                                   Running)
                    ELSE Reloading(lib, material, value)
           ELSE Reloading(lib, material, Running)
      [] line.cmd = "#" -> Reloading(lib, material, Running)
      [] OTHER ->
           Reloading(lib, material,
                     Err([kind |-> "InvalidInstruction", instruction |-> line.cmd]))

RECURSIVE reload_from(_, _, _)
reload_from(now, lines, k) ==
    IF now.ret.tag = "Err"
    THEN now
    ELSE IF k > Len(lines)
         THEN Reloading([now.lib EXCEPT !.materials = extend(@, now.material)], None,
                        Ok(<<>>))
         ELSE reload_from(reload_line(now.lib, now.material, lines[k]), lines, k + 1)

\* Mtl::reload: the library after the call and what the call returned.
Mtl_reload(lib, lines) ==
    reload_from(Reloading([lib EXCEPT !.materials = <<>>], None, Running), lines, 1)

\* File::open(&obj_dir.join(mtllib)), the resolver of load_mtls
File_open(mtllib) == files[mtllib]

\* Mtl::reload_with under that resolver: a library that cannot be opened is
\* left as it was.
Mtl_reload_with(lib) ==
    LET opening == File_open(lib.filename)
    IN  IF opening.tag = "Err"
        THEN Reloading(lib, None, Err([kind |-> "Io"]))
        ELSE Mtl_reload(lib, opening.val)

\* HashMap<String, Arc<Material>>, as the set of its values
materials_get(materials, name) ==
    IF \E m \in materials : m.name = name
    THEN Some(CHOOSE m \in materials : m.name = name)
    ELSE None

\* materials.insert(m.name.clone(), Arc::clone(m))
entry_insert(materials, m) ==
    {old \in materials : old.name # m.name} \cup {m}

\* materials.entry(m.name.clone()).or_insert_with(|| Arc::clone(m))
entry_or_insert_with(materials, m) ==
    IF \E old \in materials : old.name = m.name THEN materials ELSE materials \cup {m}

RECURSIVE insert_from(_, _, _)
insert_from(materials, loaded, k) ==
    IF k > Len(loaded)
    THEN materials
    ELSE insert_from(entry_or_insert_with(materials, loaded[k]), loaded, k + 1)

\* The locals of load_mtls_fn and the resolver's calls so far.
Loading(libs, errs, materials, calls_made) ==
    [libs |-> libs, errs |-> errs, materials |-> materials, opened |-> calls_made]

\* One iteration of `for mtl_lib in &mut self.data.material_libs'.
load_lib(now, k) ==
    LET after == Mtl_reload_with(now.libs[k])
        filename == now.libs[k].filename
    IN  IF after.ret.tag = "Ok"
        THEN Loading([now.libs EXCEPT ![k] = after.lib], now.errs,
                     insert_from(now.materials, after.lib.materials, 1),
                     Append(now.opened, filename))
        ELSE Loading([now.libs EXCEPT ![k] = after.lib],
                     Append(now.errs, <<filename, after.ret.err>>),
                     now.materials, Append(now.opened, filename))

RECURSIVE load_libs_fail_fast(_, _)
load_libs_fail_fast(now, k) ==
    IF k > Len(now.libs) \/ now.errs # <<>>
    THEN now
    ELSE load_libs_fail_fast(load_lib(now, k), k + 1)

RECURSIVE load_libs(_, _)
load_libs(now, k) ==
    IF k > Len(now.libs)
    THEN now
    ELSE load_libs(load_lib(now, k), k + 1)

\* `if let Some(ref mut mat) = group.material' with the lookup under it
assign_material(material, materials) ==
    IF is_some(material)
    THEN LET newmat == materials_get(materials, ObjMaterial_name(unwrap(material)))
         IN  IF is_some(newmat) THEN Some(ObjMaterial_Mtl(unwrap(newmat))) ELSE material
    ELSE material

\* "Assign loaded materials to the corresponding objects."
assign_materials(objects, materials) ==
    [o \in 1..Len(objects) |->
        [objects[o] EXCEPT !.groups =
            [g \in 1..Len(@) |->
                [@[g] EXCEPT !.material = assign_material(@, materials)]]]]

\* Obj::load_mtls, that is Obj::load_mtls_fn under the resolver File_open.
Obj_load_mtls ==
    /\ obj.loader = "Obj"
    /\ \E after \in {load_libs(Loading(obj.data.material_libs, <<>>, {}, <<>>), 1)} :
          /\ obj' = [obj EXCEPT !.data.material_libs = after.libs,
                                !.data.objects = assign_materials(@, after.materials)]
          /\ opened' = after.opened
          /\ mtl_ret' = IF after.errs = <<>> THEN Ok(<<>>) ELSE Err(after.errs)
    /\ UNCHANGED files
    /\ UNCHANGED <<parser_vars, normalizer_vars, render_vars>>

\* MeshLoader::load_mtls, that is MeshLoader::load_mtls_fn: the body is
\* commented out, the resolver is never called and Ok(()) is returned.
MeshLoader_load_mtls ==
    /\ obj.loader = "MeshLoader"
    /\ opened' = <<>>
    /\ mtl_ret' = Ok(<<>>)
    /\ UNCHANGED <<obj, files>>
    /\ UNCHANGED <<parser_vars, normalizer_vars, render_vars>>

(***************************************************************************)
(* Inputs of the material-library specification: three file names, the     *)
(* contents a file may have, and the objects of a mesh.                    *)
(***************************************************************************)
newmtl(s) == Line("newmtl", Name(s))
Ns(n) == Line("Ns", << <<Num(n)>> >>)
comment == Line("#", Name("x"))

FileNames == {"a.mtl", "b.mtl", "c.mtl"}

NotFound == Err([kind |-> "NotFound"])

Contents ==
    { NotFound,
      Ok(<< comment, Ns(9), newmtl("Red"), Ns(1) >>),
      Ok(<< newmtl("Blue"), newmtl("Red"), Ns(2) >>),
      Ok(<< newmtl("Red"), Ns(3), newmtl("Red"), Ns(4) >>),
      Ok(<< newmtl("Red"), Ns(5), Line("bogus", <<>>) >>),
      Ok(<< newmtl("Red"), Ns(6), newmtl("Blue"), Ns(6), Line("newmtl", <<>>) >>),
      Ok(<< newmtl("Blue"), Line("Ns", Name("x")) >>) }

usemtl(material) == [name |-> DEFAULT_GROUP, index |-> 0, material |-> material, polys |-> <<>>]

by_name(s) == usemtl(Some(ObjMaterial_Ref(Name(s)[1])))

ObjectLists ==
    { << [name |-> DEFAULT_OBJECT, groups |-> << by_name("Red"), usemtl(None) >>],
         [name |-> DEFAULT_OBJECT, groups |-> << by_name("Blue"), by_name("Gold") >>] >> }

libs_of(filenames) ==
    [k \in 1..Len(filenames) |-> Mtl_new(filenames[k])]

InitMtls ==
    /\ parser_idle
    /\ normalizer_idle
    /\ render_idle
    /\ files \in [FileNames -> Contents]
    /\ \E loader \in {"Obj", "MeshLoader"}, filenames \in SeqsUpTo(FileNames, MaxLibs),
          objects \in ObjectLists :
          obj = [loader |-> loader,
                 data |-> [material_libs |-> libs_of(filenames), objects |-> objects]]
    /\ opened = <<>>
    /\ mtl_ret = Running

NextMtls ==
    \/ Obj_load_mtls
    \/ MeshLoader_load_mtls

SpecMtls == InitMtls /\ [][NextMtls]_vars

(***************************************************************************)
(* Properties of the material-library loaders.                             *)
(***************************************************************************)
\* The file names of the `mtllib' references, in the order of the file.
declared == [k \in 1..Len(obj.data.material_libs) |-> obj.data.material_libs[k].filename]

\* What loading the k-th library on its own yields.
loaded_alone(k) == Mtl_reload_with(Mtl_new(declared[k]))

failed(k) == loaded_alone(k).ret.tag = "Err"

failing == {k \in 1..Len(declared) : failed(k)}

\* The materials the k-th library holds after it was loaded.
materials_of(k) ==
    LET loaded == loaded_alone(k).lib.materials
    IN  {loaded[i] : i \in 1..Len(loaded)}

\* The definitions of a name in the k-th library.
definitions(k, name) == {m \in materials_of(k) : m.name = name}

\* The libraries that loaded and define the name.
defining(name) ==
    {k \in 1..Len(declared) : ~failed(k) /\ definitions(k, name) # {}}

first_of(S) == CHOOSE k \in S : \A j \in S : k <= j

\* The groups of the mesh, as (object, group) positions.
group_slots ==
    UNION { {<<o, g>> : g \in 1..Len(obj.data.objects[o].groups)} :
            o \in 1..Len(obj.data.objects) }

material_at(o, og) == o.data.objects[og[1]].groups[og[2]].material

is_resolved(material) == is_some(material) /\ unwrap(material).tag = "Mtl"

\* Some library that loaded defines the name the group's material carries.
resolvable(og) ==
    /\ is_some(material_at(obj, og))
    /\ defining(ObjMaterial_name(unwrap(material_at(obj, og)))) # {}

\* C17: Obj::load_mtls_fn binds every group whose material name some loaded
\* library defines to a definition of the first such library in declaration
\* order, and leaves every other group's material as it was.
C17_FirstLibraryWins ==
    [][obj.loader = "Obj"
       => \A og \in group_slots :
            LET was == material_at(obj, og)
                now == material_at(obj', og)
            IN  IF resolvable(og)
                THEN /\ is_resolved(now)
                     /\ unwrap(now).material \in
                            definitions(first_of(defining(ObjMaterial_name(unwrap(was)))),
                                        ObjMaterial_name(unwrap(was)))
                ELSE now = was]_vars

\* Two libraries that loaded define `Red' differently; the group that uses
\* `Red' is bound to the definition of the first, and a group whose name no
\* library defines is still a reference.
C17_Witness ==
    /\ obj.loader = "Obj"
    /\ mtl_ret.tag # "Running"
    /\ \E i \in defining(Name("Red")[1]), j \in defining(Name("Red")[1]) :
          /\ i = first_of(defining(Name("Red")[1]))
          /\ i < j
          /\ definitions(i, Name("Red")[1]) \cap definitions(j, Name("Red")[1]) = {}
          /\ \E og \in group_slots :
                /\ is_resolved(material_at(obj, og))
                /\ unwrap(material_at(obj, og)).material \in definitions(i, Name("Red")[1])
    /\ \E og \in group_slots :
          /\ is_some(material_at(obj, og))
          /\ unwrap(material_at(obj, og)).tag = "Ref"

\* The (filename, error) entries of the libraries that fail, in declaration
\* order.
errors_expected ==
    LET ks == SelectSeq([k \in 1..Len(declared) |-> k], LAMBDA k : failed(k))
    IN  [i \in 1..Len(ks) |-> <<declared[ks[i]], loaded_alone(ks[i]).ret.err>>]

\* C18: Obj::load_mtls_fn calls the resolver for every library in
\* declaration order whatever the earlier ones returned; it returns Err
\* exactly when some library failed, with one (filename, error) entry per
\* failed library in declaration order; every material bound to a group
\* comes from a library that loaded, and every group whose name a loaded
\* library defines is bound.
C18_PartialFailure ==
    [][obj.loader = "Obj"
       => /\ opened' = declared
          /\ (mtl_ret'.tag = "Err") <=> (failing # {})
          /\ mtl_ret'.tag = "Err" => mtl_ret'.err = errors_expected
          /\ \A og \in group_slots :
                /\ is_resolved(material_at(obj', og))
                   => \E k \in 1..Len(declared) :
                         /\ ~failed(k)
                         /\ unwrap(material_at(obj', og)).material \in materials_of(k)
                /\ resolvable(og) => is_resolved(material_at(obj', og))]_vars

\* The first and the third library failed, the first after it had read a
\* material; the second loaded and a group is bound to a material of it.
C18_Witness ==
    /\ obj.loader = "Obj"
    /\ mtl_ret.tag = "Err"
    /\ Len(mtl_ret.err) = 2
    /\ Len(declared) = 3
    /\ failing = {1, 3}
    /\ obj.data.material_libs[1].materials # <<>>
    /\ mtl_ret.err[1][2] # mtl_ret.err[2][2]
    /\ \E og \in group_slots :
          /\ is_resolved(material_at(obj, og))
          /\ unwrap(material_at(obj, og)).material \in materials_of(2)

\* C19: after MeshLoader::load_mtls the resolver has been called once for
\* each recorded library, in order, the call returned Err exactly when some
\* library failed, and every group whose material name a loaded library
\* defines points to a loaded Material.
C19_LibrariesLoaded ==
    (obj.loader = "MeshLoader" /\ mtl_ret.tag # "Running")
    => /\ opened = declared
       /\ (mtl_ret.tag = "Err") <=> (failing # {})
       /\ \A og \in group_slots : resolvable(og) => is_resolved(material_at(obj, og))

(***************************************************************************)
(* MeshLoader::load (src/mesh/mod.rs).  A path is the sequence of its      *)
(* components and a component the sequence of its `.'-separated parts;     *)
(* `files' holds what opening the path yields, an I/O error or the lines   *)
(* of the file.                                                            *)
(***************************************************************************)
\* Most components of a path given to load.
MaxDepth == 2

\* Path::parent: the path without its last component, None for the empty
\* path.
parent(p) == IF p = <<>> THEN None ELSE Some(SubSeq(p, 1, Len(p) - 1))

\* Path::file_name
file_name(p) == IF p = <<>> THEN None ELSE Some(p[Len(p)])

\* Path::extension: what follows the last `.' of the file name, None for a
\* name without `.' and for one whose only `.' is its first character.
extension(p) ==
    IF is_some(file_name(p))
    THEN LET parts == unwrap(file_name(p))
         IN  IF Len(parts) = 1 \/ (Len(parts) = 2 /\ parts[1] = "")
             THEN None
             ELSE Some(parts[Len(parts)])
    ELSE None

\* File::open(path.as_ref())
File_open_path(p) == files[p]

\* `let path = path.as_ref().parent().unwrap().to_owned()' and then
\* `path.extension()': the extension load tests is that of the parent.
extension_tested(p) == extension(unwrap(parent(p)))

\* MeshLoader::load up to the call of the parser.
MeshLoader_load ==
    /\ obj.loader = "load"
    /\ mtl_ret = Running
    /\ opened' = Append(opened, obj.path)
    /\ LET f == File_open_path(obj.path)
       IN  IF f.tag = "Err"
           THEN mtl_ret' = Err([kind |-> "Io"]) /\ input' = input
           ELSE IF extension_tested(obj.path) = Some("obj")
                THEN /\ mtl_ret' = [tag |-> "Parsing", path |-> unwrap(parent(obj.path))]
                     /\ input' = f.val
                ELSE mtl_ret' = Err([kind |-> "Unsupported"]) /\ input' = input
    /\ UNCHANGED <<overflow_checks, idx, dat, object, group, ret>>
    /\ UNCHANGED <<obj, files>>
    /\ UNCHANGED <<normalizer_vars, render_vars>>

\* ObjData::parse_mesh_data(&f), that is load_buf on the file.
parse_mesh_data ==
    /\ mtl_ret.tag = "Parsing"
    /\ (load_buf_line \/ load_buf_end)

\* `?' on the parser's result and `Ok(MeshLoader { data, path })'.
MeshLoader_load_return ==
    /\ mtl_ret.tag = "Parsing"
    /\ ret.tag # "Running"
    /\ mtl_ret' = IF ret.tag = "Ok"
                  THEN Ok([data |-> ret.val, path |-> mtl_ret.path])
                  ELSE ret
    /\ UNCHANGED <<obj, files, opened>>
    /\ UNCHANGED <<parser_vars, normalizer_vars, render_vars>>

(***************************************************************************)
(* Inputs of the loader specification: paths of one or two components and  *)
(* what the file at the path holds.                                        *)
(***************************************************************************)
Components ==
    { <<"models">>, <<"dir", "obj">>, <<"head", "obj">>, <<"head", "txt">>, <<"", "obj">> }

Paths == SeqsUpTo(Components, MaxDepth) \ {<<>>}

FileContents ==
    { Err([kind |-> "NotFound"]),
      Ok(<<>>),
      Ok(<< v(0, 0, 0), v(1, 0, 0), v(0, 1, 0), f3(1, 2, 3) >>),
      Ok(<< v(0, 0, 0), Line("f", <<>>) >>),
      Ok(<< v(0, 0, 0), Line("mtllib", <<>>), f3(1, 1, 1) >>) }

InitLoad ==
    /\ parser_idle
    /\ normalizer_idle
    /\ render_idle
    /\ \E p \in Paths, content \in FileContents :
          /\ obj = [loader |-> "load", path |-> p]
          /\ files = [q \in {p} |-> content]
    /\ opened = <<>>
    /\ mtl_ret = Running

NextLoad ==
    \/ MeshLoader_load
    \/ parse_mesh_data
    \/ MeshLoader_load_return

SpecLoad == InitLoad /\ [][NextLoad]_vars

\* The file at the path given to load can be opened.
readable == File_open_path(obj.path).tag = "Ok"

\* load has returned.
load_returned == mtl_ret.tag \in {"Ok", "Err", "Panic"}

\* C20: load picks the parser by the extension of the file itself: for a
\* readable file named `*.obj' it returns what the parser returns (the mesh
\* or the parser's error), for a readable file of any other extension
\* ObjError::Unsupported, and for an unreadable path an I/O error.
C20_ParserByFileExtension ==
    load_returned
    => IF ~readable
       THEN mtl_ret = Err([kind |-> "Io"])
       ELSE IF extension(obj.path) = Some("obj")
            THEN /\ ret.tag # "Running"
                 /\ mtl_ret = IF ret.tag = "Ok"
                              THEN Ok([data |-> ret.val, path |-> unwrap(parent(obj.path))])
                              ELSE ret
            ELSE mtl_ret = Err([kind |-> "Unsupported"])

(***************************************************************************)
(* The line rasterizer (src/wireframe.rs).  `drawn' is the log of the      *)
(* calls made: draw_line with its endpoints, set_pixel with its            *)
(* coordinates, clear with its colour.                                     *)
(***************************************************************************)
Call(name, args) == [call |-> name, args |-> args]

\* utils::set_pixel as draw_line calls it, with the extent of the buffer as
\* arguments: the slot of (x, y) under the frame's one convention, Y flipped
\* with the origin at the bottom left.
set_pixel_wh(x, y, bufs, color, width, height) ==
    LET slot == x + WIDTH * (HEIGHT - 1 - y)
    IN  IF y > HEIGHT - 1 \/ slot \notin Slots
        THEN [bufs EXCEPT !.panicked = TRUE]
        ELSE [bufs EXCEPT !.frame[slot] = color]

\* The endpoints after the two swaps of draw_line, and `steep'.
line_ends(x1, y1, x2, y2) ==
    LET steep == Abs(x1 - x2) < Abs(y1 - y2)
        a == IF steep THEN <<y1, x1, y2, x2>> ELSE <<x1, y1, x2, y2>>
        b == IF a[1] > a[3] THEN <<a[3], a[4], a[1], a[2]>> ELSE a
    IN  [x1 |-> b[1], y1 |-> b[2], x2 |-> b[3], y2 |-> b[4], steep |-> steep]

\* `for x in x1..=x2'
x_in_range_inclusive(x, x2) == x <= x2

\* `for x in x1..x2'
x_in_range(x, x2) == x < x2

\* `if y2 > y1 { 1 } else { 1 }'
y_step_up(y1, y2) == 1

\* `if y2 > y1 { 1 } else { -1 }'
y_step(y1, y2) == IF y2 > y1 THEN 1 ELSE -1

\* What draw_line has done so far: the buffers and the set_pixel calls.
Drawing(bufs, calls_made) == [bufs |-> bufs, calls |-> calls_made]

\* The loop of draw_line from x on, with the locals y and error.
RECURSIVE line_from(_, _, _, _, _, _, _)
line_from(x, y, error, ends, now, color, size) ==
    IF ~x_in_range(x, ends.x2) \/ now.bufs.panicked
    THEN now
    ELSE LET dx == ends.x2 - ends.x1
             derror == Abs((ends.y2 - ends.y1) * 2)
             px == IF ends.steep THEN as_usize(y) ELSE as_usize(x)
             py == IF ends.steep THEN as_usize(x) ELSE as_usize(y)
             stepped == error + derror > dx
         IN  line_from(x + 1,
                       IF stepped THEN y + y_step(ends.y1, ends.y2) ELSE y,
                       IF stepped THEN error + derror - dx * 2 ELSE error + derror,
                       ends,
                       Drawing(set_pixel_wh(px, py, now.bufs, color, size[1], size[2]),
                               Append(now.calls, Call("set_pixel", <<px, py>>))),
                       color, size)

draw_line(x1, y1, x2, y2, bufs, color, width, height) ==
    LET ends == line_ends(x1, y1, x2, y2)
    IN  line_from(ends.x1, ends.y1, 0, ends, Drawing(bufs, <<>>), color, <<width, height>>)

(***************************************************************************)
(* One draw_line call on a cleared frame, as in bench_draw_line; the       *)
(* endpoints are any two pixels of the viewport.                           *)
(***************************************************************************)
RED == <<255, 0, 0, 255>>

draw_line_call ==
    /\ pc.at = "lines"
    /\ pc.n = 0
    /\ \E after \in {draw_line(scene[1], scene[2], scene[3], scene[4],
                               Buffers(frame, zbuffer, FALSE), RED, WIDTH, HEIGHT)} :
          /\ frame' = after.bufs.frame
          /\ drawn' = <<Call("draw_line", scene)>> \o after.calls
          /\ pc' = IF after.bufs.panicked THEN At("panic", 1, 0, 0, 0)
                   ELSE At("lines", 1, 0, 0, 0)
    /\ UNCHANGED <<scene, zbuffer>>
    /\ UNCHANGED <<parser_vars, normalizer_vars, mtl_vars>>

InitLines ==
    /\ parser_idle
    /\ normalizer_idle
    /\ mtl_idle
    /\ scene \in (0..(WIDTH - 1)) \X (0..(HEIGHT - 1)) \X (0..(WIDTH - 1)) \X (0..(HEIGHT - 1))
    /\ frame = fresh_frame
    /\ zbuffer = fresh_zbuffer
    /\ pc = At("lines", 0, 0, 0, 0)
    /\ drawn = <<>>

NextLines == draw_line_call

SpecLines == InitLines /\ [][NextLines]_vars

(***************************************************************************)
(* Properties of draw_line.                                                *)
(***************************************************************************)
\* The pixels draw_line addressed, in the order of the calls.
pixels_drawn == [k \in 1..(Len(drawn) - 1) |-> drawn[k + 1].args]

line_done == pc.at = "lines" /\ pc.n = 1

\* The line runs along x (1) or along y (2): the axis of the greater extent,
\* x when the extents are equal.
major == IF Abs(scene[1] - scene[3]) < Abs(scene[2] - scene[4]) THEN 2 ELSE 1
minor == 3 - major

\* The coordinates of the two endpoints along an axis.
end_1(axis) == scene[axis]
end_2(axis) == scene[axis + 2]

smaller(a, b) == IF a < b THEN a ELSE b
greater(a, b) == IF a < b THEN b ELSE a

\* C21: draw_line writes max(|x2-x1|, |y2-y1|) pixels, one for each value of
\* the major-axis coordinate from the smaller endpoint value to the larger
\* one less 1: the endpoint with the smaller major coordinate is drawn, the
\* other is not, a line of no length draws nothing.
C21_HalfOpenRun ==
    line_done
    => LET lo == smaller(end_1(major), end_2(major))
           hi == greater(end_1(major), end_2(major))
           first == IF end_1(major) <= end_2(major)
                    THEN <<scene[1], scene[2]>> ELSE <<scene[3], scene[4]>>
           last == IF end_1(major) <= end_2(major)
                   THEN <<scene[3], scene[4]>> ELSE <<scene[1], scene[2]>>
       IN  /\ Len(pixels_drawn) = greater(Abs(scene[3] - scene[1]), Abs(scene[4] - scene[2]))
           /\ \A k \in 1..Len(pixels_drawn) : pixels_drawn[k][major] = lo + k - 1
           /\ Cardinality({slot \in Slots : frame[slot] = RED}) = hi - lo
           /\ hi > lo => (pixels_drawn[1] = first
                          /\ \A k \in 1..Len(pixels_drawn) : pixels_drawn[k] # last)
           /\ hi = lo => frame = fresh_frame

\* A steep line and a shallow one have been drawn, each from its second
\* endpoint.
C21_Witness ==
    /\ line_done
    /\ Len(pixels_drawn) >= 3
    /\ major = 2
    /\ end_1(major) > end_2(major)
    /\ end_1(minor) # end_2(minor)
    /\ pixels_drawn[1] = <<scene[3], scene[4]>>

\* C29: every pixel draw_line writes is inside the bounding box of the two
\* endpoints; from one written pixel to the next the major coordinate grows
\* by 1 and the minor coordinate stays or moves by 1 towards the minor
\* coordinate of the endpoint that is not drawn.
C29_ConnectedRun ==
    line_done
    => LET towards == IF end_1(major) <= end_2(major)
                      THEN end_2(minor) - end_1(minor)
                      ELSE end_1(minor) - end_2(minor)
       IN  /\ \A k \in 1..Len(pixels_drawn) :
                 /\ smaller(scene[1], scene[3]) <= pixels_drawn[k][1]
                 /\ pixels_drawn[k][1] <= greater(scene[1], scene[3])
                 /\ smaller(scene[2], scene[4]) <= pixels_drawn[k][2]
                 /\ pixels_drawn[k][2] <= greater(scene[2], scene[4])
           /\ \A k \in 1..(Len(pixels_drawn) - 1) :
                 LET step == pixels_drawn[k + 1][minor] - pixels_drawn[k][minor]
                 IN  /\ pixels_drawn[k + 1][major] = pixels_drawn[k][major] + 1
                     /\ step = 0 \/ (towards # 0 /\ step = Sgn(towards))

\* A line that falls along its major axis has been drawn with steps of the
\* minor coordinate.
C29_Witness ==
    /\ line_done
    /\ major = 1
    /\ end_1(major) < end_2(major)
    /\ end_1(minor) > end_2(minor) + 1
    /\ \E k \in 1..(Len(pixels_drawn) - 1) :
          pixels_drawn[k + 1][minor] = pixels_drawn[k][minor] - 1
    /\ \E k \in 1..(Len(pixels_drawn) - 1) :
          pixels_drawn[k + 1][minor] = pixels_drawn[k][minor]

(***************************************************************************)
(* The wireframe renderer (src/wireframe.rs) under render_scene with       *)
(* config.is_wireframe (src/lib.rs).                                       *)
(***************************************************************************)
\* `(v.x + 1f32) * width / 2.' and `as i32', for x and for y
to_screen(vertex) ==
    << as_i32(f32_div(f32_mul(f32_add(vertex[1], f32_of(1)), f32_of(WIDTH - 1)), f32_of(2))),
       as_i32(f32_div(f32_mul(f32_add(vertex[2], f32_of(1)), f32_of(HEIGHT - 1)), f32_of(2))) >>

\* `for i in 0..3'
wire_edges_closed == <<0, 1, 2>>

\* `for i in 0..2'
wire_edges == <<0, 1>>

\* face[i] and face[(i + 1) % 3] exist and index `vertices'.
edge_in_range(vertices, poly, i) ==
    /\ i + 1 <= Len(poly) /\ ((i + 1) % 3) + 1 <= Len(poly)
    /\ poly[i + 1][1] < Len(vertices)
    /\ poly[((i + 1) % 3) + 1][1] < Len(vertices)

\* The iterations of `for i in 0..2' from the k-th on.
RECURSIVE wire_from(_, _, _, _, _)
wire_from(vertices, poly, k, now, color) ==
    IF k > Len(wire_edges) \/ now.bufs.panicked
    THEN now
    ELSE LET i == wire_edges[k]
         IN  IF ~edge_in_range(vertices, poly, i)
             THEN Drawing([now.bufs EXCEPT !.panicked = TRUE], now.calls)
             ELSE LET p0 == to_screen(vertices[poly[i + 1][1] + 1])
                      p1 == to_screen(vertices[poly[((i + 1) % 3) + 1][1] + 1])
                      line == draw_line(p0[1], p0[2], p1[1], p1[2], now.bufs, color,
                                        WIDTH - 1, HEIGHT - 1)
                  IN  wire_from(vertices, poly, k + 1,
                                Drawing(line.bufs,
                                        now.calls
                                          \o <<Call("draw_line", <<p0[1], p0[2], p1[1], p1[2]>>)>>
                                          \o line.calls),
                                color)

\* One iteration of `for face in faces' in draw_object_wireframe.
wire_face(vertices, poly, bufs, color) ==
    wire_from(vertices, poly, 1, Drawing(bufs, <<>>), color)

\* render_scene, wireframe mode, for one group: draw_object_wireframe is
\* called.
render_scene_wireframe_group ==
    /\ scene.entry = "render_scene"
    /\ scene.is_wireframe
    /\ pc.at = "group"
    /\ pc' = [enter_group(pc.n, pc.o, pc.g) EXCEPT !.at = IF @ = "face" THEN "wire" ELSE @]
    /\ UNCHANGED <<scene, frame, zbuffer, drawn>>
    /\ UNCHANGED <<parser_vars, normalizer_vars, mtl_vars>>

draw_object_wireframe_face ==
    /\ pc.at = "wire"
    /\ \E after \in {wire_face(position, face_now, Buffers(frame, zbuffer, FALSE),
                               scene.default_color)} :
           /\ frame' = after.bufs.frame
           /\ drawn' = drawn \o after.calls
           /\ pc' = IF after.bufs.panicked
                    THEN At("panic", pc.n, pc.o, pc.g, pc.f)
                    ELSE IF pc.f + 1 < Len(mesh_objects[pc.o].groups[pc.g].polys)
                    THEN At("wire", pc.n, pc.o, pc.g, pc.f + 1)
                    ELSE goto_group(pc.n, next_group(mesh_objects, pc.o, pc.g))
    /\ UNCHANGED <<scene, zbuffer>>
    /\ UNCHANGED <<parser_vars, normalizer_vars, mtl_vars>>

WireScenes ==
    {[entry |-> "render_scene", is_wireframe |-> TRUE, light_dir |-> LIGHT_DIR,
      default_color |-> c] : c \in {RED, BLACK}}

Junk == <<7, 7, 7, 7>>

InitWire ==
    /\ input \in SceneTexts
    /\ overflow_checks \in BOOLEAN
    /\ idx = 0
    /\ dat = MeshData_default
    /\ object = Object_new(DEFAULT_OBJECT)
    /\ group = None
    /\ ret = Running
    /\ normalizer_idle
    /\ mtl_idle
    /\ scene \in WireScenes
    /\ frame \in {[slot \in Slots |-> <<0, 0, 0, 0>>], [slot \in Slots |-> Junk]}
    /\ zbuffer = <<>>
    /\ pc = At("load", 0, 0, 0, 0)
    /\ drawn = <<>>

NextWire ==
    \/ load_buf_line
    \/ load_buf_end
    \/ init
    \/ render_scene_begin
    \/ render_scene_wireframe_group
    \/ draw_object_wireframe_face

SpecWire == InitWire /\ [][NextWire]_vars

(***************************************************************************)
(* Properties of draw_object_wireframe.                                    *)
(***************************************************************************)
\* The draw_line calls among the calls logged from the k-th on.
lines_since(log, k) ==
    SelectSeq(SubSeq(log, k + 1, Len(log)), LAMBDA c : c.call = "draw_line")

\* The screen position of the i-th entry (from 0) of the face being drawn.
corner_on_screen(i) == to_screen(position[face_now[i + 1][1] + 1])

edge_call(i, j) == Call("draw_line", corner_on_screen(i) \o corner_on_screen(j))

\* C22: for a face draw_object_wireframe calls draw_line twice, for the
\* vertex pairs (0,1) and (1,2) of the first three entries, in that order
\* and for no other pair, and the depth buffer stays as it is.
C22_TwoEdges ==
    [][(pc.at = "wire" /\ face_in_range(position, face_now))
       => /\ lines_since(drawn', Len(drawn)) = <<edge_call(0, 1), edge_call(1, 2)>>
          /\ zbuffer' = zbuffer]_vars

\* A face whose three edges differ on screen has been drawn: two draw_line
\* calls are logged and none is for the closing edge.
C22_Witness ==
    /\ pc.at \in {"wire", "done", "group"}
    /\ pc.n = 1
    /\ Len(lines_since(drawn, 0)) = 2
    /\ LET a == lines_since(drawn, 0)[1].args
           b == lines_since(drawn, 0)[2].args
       IN  /\ <<a[3], a[4]>> = <<b[1], b[2]>>
           /\ <<a[1], a[2]>> # <<a[3], a[4]>>
           /\ <<b[1], b[2]>> # <<b[3], b[4]>>
           /\ <<b[3], b[4]>> # <<a[1], a[2]>>
           /\ \A k \in 1..Len(drawn) :
                 drawn[k] # Call("draw_line", <<b[3], b[4], a[1], a[2]>>)
    /\ \E slot \in Slots : frame[slot] = RED

(***************************************************************************)
(* The frame-buffer utilities (src/utils.rs): a frame of any contents is   *)
(* cleared and pixels of the viewport are then set.                        *)
(***************************************************************************)
\* Most set_pixel calls after the clear.
MaxPixels == 2

GREEN == <<0, 255, 0, 255>>

\* The pixels set_pixel is called with: the corners of the viewport and
\* their neighbours.
PixelInputs == {0, 1, WIDTH - 1} \X {0, 1, HEIGHT - 1}

clear_call ==
    /\ pc.at = "dirty"
    /\ \E color \in {BLACK, Junk} :
          /\ frame' = clear(frame, color)
          /\ drawn' = <<Call("clear", color)>>
    /\ pc' = At("pixels", 0, 0, 0, 0)
    /\ UNCHANGED <<scene, zbuffer>>
    /\ UNCHANGED <<parser_vars, normalizer_vars, mtl_vars>>

set_pixel_call ==
    /\ pc.at = "pixels"
    /\ pc.n < MaxPixels
    /\ \E xy \in PixelInputs, color \in {RED, GREEN} :
          \E after \in {set_pixel(xy[1], xy[2], Buffers(frame, zbuffer, FALSE), color)} :
             /\ frame' = after.frame
             /\ drawn' = Append(drawn, Call("set_pixel", <<xy[1], xy[2], color>>))
             /\ pc' = IF after.panicked THEN At("panic", pc.n + 1, 0, 0, 0)
                      ELSE At("pixels", pc.n + 1, 0, 0, 0)
    /\ UNCHANGED <<scene, zbuffer>>
    /\ UNCHANGED <<parser_vars, normalizer_vars, mtl_vars>>

InitPixels ==
    /\ parser_idle
    /\ normalizer_idle
    /\ mtl_idle
    /\ scene = <<>>
    /\ frame \in {[slot \in Slots |-> <<0, 0, 0, 0>>], [slot \in Slots |-> GREEN]}
    /\ zbuffer = fresh_zbuffer
    /\ pc = At("dirty", 0, 0, 0, 0)
    /\ drawn = <<>>

NextPixels ==
    \/ clear_call
    \/ set_pixel_call

SpecPixels == InitPixels /\ [][NextPixels]_vars

\* The set_pixel calls logged that address the slot, as positions of the log.
addressed(slot) ==
    {k \in 2..Len(drawn) : slot_of(drawn[k].args[1], drawn[k].args[2]) = slot}

\* C23: after clear(frame, c) and any set_pixel calls inside the viewport
\* every slot holds the colour of the last set_pixel call addressed to it,
\* or c if there was none, set_pixel(x, y) addressing the slot
\* x + WIDTH * (HEIGHT - 1 - y); distinct pixels have distinct slots.
C23_LastWriteWins ==
    /\ pc.at \in {"pixels", "panic"}
       => /\ pc.at = "pixels"
          /\ \A slot \in Slots :
                frame[slot] = IF addressed(slot) = {}
                              THEN drawn[1].args
                              ELSE drawn[CHOOSE k \in addressed(slot) :
                                             \A j \in addressed(slot) : j <= k].args[3]
    /\ \A p \in Pixels : slot_of(p[1], p[2]) \in Slots
    /\ Cardinality({slot_of(p[1], p[2]) : p \in Pixels}) = Cardinality(Pixels)

\* A pixel was set twice, in two colours, and another pixel once, on a frame
\* cleared to a colour it did not have.
C23_Witness ==
    /\ pc.at = "pixels"
    /\ Len(drawn) = 3
    /\ drawn[1].args = Junk
    /\ drawn[2].args[1] = drawn[3].args[1]
    /\ drawn[2].args[2] = drawn[3].args[2]
    /\ drawn[2].args[3] # drawn[3].args[3]
    /\ drawn[2].args[2] = 0
    /\ frame[slot_of(drawn[3].args[1], drawn[3].args[2])] = drawn[3].args[3]

(***************************************************************************)
(* Faces of fewer than three index groups.                                 *)
(***************************************************************************)
f_none == Line("f", <<>>)
f_one == Line("f", << <<Num(1)>> >>)
f_two == Line("f", << <<Num(1)>>, <<Num(1)>> >>)

ShortFaceLines == {v_ok, face(<<Num(1)>>), f_none, f_one, f_two}

InitShortFaces == load_buf_init(SeqsUpTo(ShortFaceLines, MaxFaceLines))

SpecShortFaces == InitShortFaces /\ [][Next]_vars

\* C24: every polygon of a mesh returned by load_buf has at least three
\* IndexTuples: an `f' line of fewer than three index groups is not turned
\* into a polygon.
C24_AtLeastThreeEntries ==
    ret.tag = "Ok" =>
        \A k \in 1..Len(polys_of(ret.val.objects)) :
            Len(polys_of(ret.val.objects)[k]) >= 3

\* The groups of object o of the mesh returned.
groups_returned(o) == ret.val.objects[o].groups

\* C25: in every mesh returned by load_buf no two groups of the same object
\* have both the same name and the same index.
C25_IndexTellsApart ==
    ret.tag = "Ok" =>
        \A o \in 1..Len(ret.val.objects) :
            \A i \in 1..Len(groups_returned(o)), j \in 1..Len(groups_returned(o)) :
                (/\ i # j
                 /\ groups_returned(o)[i].name = groups_returned(o)[j].name)
                => groups_returned(o)[i].index # groups_returned(o)[j].index

\* How many entries of the sequence equal x.
occurrences(x, seq) == Cardinality({k \in 1..Len(seq) : seq[k] = x})

\* part is what is left of seq after dropping some of its entries.
RECURSIVE is_subsequence(_, _)
is_subsequence(part, seq) ==
    IF part = <<>> THEN TRUE
    ELSE IF seq = <<>> THEN FALSE
    ELSE IF Head(part) = Head(seq) THEN is_subsequence(Tail(part), Tail(seq))
    ELSE is_subsequence(part, Tail(seq))

\* C28: when load_buf returns Ok, the polygons of all groups of all objects
\* of the mesh are exactly the `f' lines of the input, each once, and those
\* of a group are in file order.
C28_PolygonsConserved ==
    ret.tag = "Ok" =>
        /\ Len(polys_of(ret.val.objects)) = Len(expected_polys)
        /\ \A k \in 1..Len(expected_polys) :
              occurrences(expected_polys[k], polys_of(ret.val.objects))
                  = occurrences(expected_polys[k], expected_polys)
        /\ \A o \in 1..Len(ret.val.objects) :
              \A g \in 1..Len(groups_returned(o)) :
                  is_subsequence(groups_returned(o)[g].polys, expected_polys)

\* The pixel (x, y) passes render_triangle's test of the weights.
passes(x, y, t) ==
    LET bc_screen == barycentric_coordinates(t.vertices,
                                             <<f32_of(x), f32_of(y), f32_of(0)>>)
    IN  bc_screen[1][1] >= 0 /\ bc_screen[2][1] >= 0 /\ bc_screen[3][1] >= 0

\* C26: render_triangle maps every pixel of the viewport to a depth-buffer
\* slot of its own: the slot is one of the buffer and no two distinct pixels
\* share it, so that a triangle drawn into freshly cleared buffers is written
\* at every pixel that passes the test of the weights, no depth written for
\* another pixel suppressing it.
C26_DepthSlotPerPixel ==
    (pc.at = "triangles" /\ pc.f = 1)
    => /\ \A p \in Pixels :
             /\ depth_slot(p[1], p[2]) \in DOMAIN zbuffer
             /\ \A r \in Pixels :
                   p # r => depth_slot(p[1], p[2]) # depth_slot(r[1], r[2])
       /\ \A p \in Pixels :
             passes(p[1], p[2], scene[1])
             => frame[slot_of(p[1], p[2])] = scene[1].color

\* b[1] * V0 + b[2] * V1 + b[3] * V2 in coordinate a, in f32.
combination(b, vertices, a) ==
    f32_add(f32_add(f32_mul(b[1], vertices[1][a]), f32_mul(b[2], vertices[2][a])),
            f32_mul(b[3], vertices[3][a]))

\* The pixels that are vertices of the triangle t.
vertex_pixels(t) ==
    {p \in Pixels : \E k \in 1..3 : t.xy2[k] = <<2 * p[1], 2 * p[2]>>}

\* The triangle render_triangle was last called with.
triangle_now == scene[pc.f]

\* C27: for a triangle (V0, V1, V2) of non-zero area and a point P,
\* barycentric_coordinates returns weights that sum to 1 and combine the
\* vertices, in their order, to P in x and y.  Stated for the points P that
\* are vertices of the triangle, where the f32 arithmetic is exact.
C27_WeightsInVertexOrder ==
    (pc.at = "triangles" /\ pc.f >= 1 /\ ~collinear(triangle_now))
    => \A p \in vertex_pixels(triangle_now) :
          LET point == <<f32_of(p[1]), f32_of(p[2]), f32_of(0)>>
              b == barycentric_coordinates(triangle_now.vertices, point)
          IN  /\ f32_add(f32_add(b[1], b[2]), b[3]) = f32_of(1)
              /\ combination(b, triangle_now.vertices, 1) = point[1]
              /\ combination(b, triangle_now.vertices, 2) = point[2]

(***************************************************************************)
(* The frame as a function of the mesh and the configuration alone.        *)
(***************************************************************************)
\* The faces of a group from the k-th on, drawn over bufs.
RECURSIVE faces_drawn(_, _, _)
faces_drawn(polys, k, bufs) ==
    IF k > Len(polys) \/ bufs.panicked THEN bufs
    ELSE faces_drawn(polys, k + 1,
                     rasterize_face(position, polys[k], bufs, to_f32(scene.light_dir)))

\* The groups of the mesh from group g of object o on, drawn over bufs: with
\* a depth buffer cleared for every group by render_scene, once for the frame
\* by the redraw handler.
RECURSIVE groups_drawn(_, _)
groups_drawn(og, bufs) ==
    IF og = <<0, 0>> \/ bufs.panicked THEN bufs
    ELSE groups_drawn(next_group(mesh_objects, og[1], og[2]),
                      faces_drawn(mesh_objects[og[1]].groups[og[2]].polys, 1,
                                  IF scene.entry = "render_scene"
                                  THEN [bufs EXCEPT !.zbuffer = fresh_zbuffer]
                                  ELSE bufs))

\* The frame of the mesh: its groups drawn over a black frame.
frame_of_mesh ==
    groups_drawn(next_group(mesh_objects, 1, 0),
                 Buffers(fresh_frame, fresh_zbuffer, FALSE)).frame

\* A step of a frame: of render_scene or of the redraw handler.
frame_step == pc.at \in {"ready", "group", "face", "done"} /\ pc' # pc

\* C30: after every call of render_scene that returns, the first and the
\* later ones alike, the frame buffer holds the frame of the mesh and the
\* configuration, whatever the frame buffer and the depth buffer held when
\* the call began; and no step of a frame changes the mesh or the
\* configuration.
C30_FrameOfMeshAndConfig ==
    /\ [](pc.at = "done" => frame = frame_of_mesh)
    /\ [][frame_step => UNCHANGED <<ret, position, scene>>]_vars

\* A second frame is finished: it was drawn over the frame and the depth
\* buffer the first had left, in which faces of two groups were painted.
C30_Witness ==
    /\ pc.at = "done"
    /\ pc.n = 2
    /\ frame # fresh_frame
    /\ zbuffer # fresh_zbuffer
    /\ Len(mesh_objects[1].groups) = 2

====
